---- MODULE Spec2Model ----
(***************************************************************************)
(* gmail-export: the redaction engine (src/sanitizer.ts) and the MIME      *)
(* walker / body extraction (src/parser.ts), modelled as state machines.   *)
(*                                                                         *)
(* Texts are TLA+ strings; a character is a one-character string.  The     *)
(* regular expressions of the source are kept as syntax trees and matched  *)
(* by a backtracking matcher with JavaScript's priorities (leftmost match, *)
(* alternatives in order, greedy quantifiers).                             *)
(***************************************************************************)
EXTENDS Integers, Sequences, FiniteSets, TLC

\* ------------------------------------------------------------------------
\* Characters and character classes
\* ------------------------------------------------------------------------
UpperChars == "ABCDEFGHIJKLMNOPQRSTUVWXYZ"
LowerChars == "abcdefghijklmnopqrstuvwxyz"

Ch(s, i) == SubSeq(s, i, i)

CharsOf(s) == { Ch(s, i) : i \in 1..Len(s) }

Upper == CharsOf(UpperChars)
Lower == CharsOf(LowerChars)
Digit == CharsOf("0123456789")
Alpha == Upper \cup Lower
Alnum == Alpha \cup Digit
\* \w of a JavaScript regular expression
WordCh == Alnum \cup {"_"}
\* U+00A0, no-break space
NBSP == " "
\* \s of a JavaScript regular expression, over the characters the texts use
Space == {" ", "\n", "\t", "\r", "\f", NBSP}

IndexIn(c, s) == CHOOSE i \in 1..Len(s) : Ch(s, i) = c

\* String.prototype.toLowerCase on one character
LowerCh(c) == IF c \in Upper THEN Ch(LowerChars, IndexIn(c, UpperChars)) ELSE c

UpperCh(c) == IF c \in Lower THEN Ch(UpperChars, IndexIn(c, LowerChars)) ELSE c

RECURSIVE ToLowerFrom(_, _)
ToLowerFrom(s, i) ==
    IF i > Len(s) THEN "" ELSE LowerCh(Ch(s, i)) \o ToLowerFrom(s, i + 1)

\* String.prototype.toLowerCase
toLowerCase(s) == ToLowerFrom(s, 1)

\* ------------------------------------------------------------------------
\* Regular expressions: syntax trees
\* ------------------------------------------------------------------------
Inf == 1000

L(s) == [t |-> "lit", s |-> s]
C(set) == [t |-> "cls", c |-> set, neg |-> FALSE]
NC(set) == [t |-> "cls", c |-> set, neg |-> TRUE]
Cat(xs) == [t |-> "cat", xs |-> xs]
Alt(xs) == [t |-> "alt", xs |-> xs]
Rep(r, lo, hi) == [t |-> "rep", r |-> r, lo |-> lo, hi |-> hi, lazy |-> FALSE]
\* r{lo,hi}? : the fewest repetitions first
Lazy(r, lo, hi) == [t |-> "rep", r |-> r, lo |-> lo, hi |-> hi, lazy |-> TRUE]
Opt(r) == Rep(r, 0, 1)
Star(r) == Rep(r, 0, Inf)
Plus(r) == Rep(r, 1, Inf)
WB == [t |-> "wb"]
\* $ without the m flag: the end of the text
EOS == [t |-> "eos"]

\* a regular expression literal: its tree and its i flag (all are global, /g)
RegExp(tree, ci) == [tree |-> tree, ci |-> ci]

IsWordAt(s, i) == i >= 1 /\ i <= Len(s) /\ Ch(s, i) \in WordCh

\* With the i flag the matcher is handed the subject in lower case, and the
\* literals of the tree are written in lower case.
LitAt(l, s, i) ==
    /\ i + Len(l) - 1 <= Len(s)
    /\ SubSeq(s, i, i + Len(l) - 1) = l

InClass(c, h, ci) ==
    LET in == IF ci THEN LowerCh(c) \in h.c \/ UpperCh(c) \in h.c ELSE c \in h.c
    IN  IF h.neg THEN ~in ELSE in

\* how many characters from position i on lie in class h, at most hi
RunLen(h, s, i, hi, ci) ==
    LET top == IF hi < Len(s) - i + 1 THEN hi ELSE Len(s) - i + 1
        runs == { j \in 0..top : \A q \in 0..(j - 1) : InClass(Ch(s, i + q), h, ci) }
    IN  CHOOSE j \in runs : \A j2 \in runs : j2 <= j

\* The backtracking matcher: k is the sequence of trees still to match from
\* position i of s; the result is the position after the match, 0 for no match.
RECURSIVE Match(_, _, _, _)
Match(k, s, i, ci) ==
    IF Len(k) = 0 THEN i
    ELSE LET h == Head(k)
             r == Tail(k)
         IN  CASE h.t = "lit" ->
                    IF LitAt(h.s, s, i) THEN Match(r, s, i + Len(h.s), ci) ELSE 0
               [] h.t = "cls" ->
                    IF i <= Len(s) /\ InClass(Ch(s, i), h, ci)
                    THEN Match(r, s, i + 1, ci) ELSE 0
               [] h.t = "wb" ->
                    IF IsWordAt(s, i - 1) # IsWordAt(s, i) THEN Match(r, s, i, ci) ELSE 0
               [] h.t = "eos" ->
                    IF i = Len(s) + 1 THEN Match(r, s, i, ci) ELSE 0
               [] h.t = "cat" -> Match(h.xs \o r, s, i, ci)
               [] h.t = "alt" ->
                    \* the first alternative with which the rest matches
                    LET ok == { j \in 1..Len(h.xs) :
                                   Match(<<h.xs[j]>> \o r, s, i, ci) # 0 }
                    IN  IF ok = {} THEN 0
                        ELSE Match(<<h.xs[CHOOSE j \in ok : \A j2 \in ok : j <= j2]>>
                                   \o r, s, i, ci)
               [] h.t = "rep" /\ h.r.t = "cls" ->
                    \* a repeated character class: the longest run first
                    LET m == RunLen(h.r, s, i, h.hi, ci)
                        ok == { j \in h.lo..m : Match(r, s, i + j, ci) # 0 }
                    IN  IF ok = {} THEN 0
                        ELSE IF h.lazy
                        THEN Match(r, s, i + (CHOOSE j \in ok : \A j2 \in ok : j <= j2),
                                   ci)
                        ELSE Match(r, s, i + (CHOOSE j \in ok : \A j2 \in ok : j2 <= j),
                                   ci)
               [] h.t = "rep" /\ h.r.t # "cls" ->
                    LET more == IF h.hi > 0
                                THEN Match(<<h.r, Rep(h.r, h.lo - 1, h.hi - 1)>> \o r,
                                           s, i, ci)
                                ELSE 0
                    IN  IF more # 0 THEN more
                        ELSE IF h.lo <= 0 THEN Match(r, s, i, ci) ELSE 0

\* The end of the match starting at each position of s (0: none)
EndsOf(re, s) ==
    LET subject == IF re.ci THEN toLowerCase(s) ELSE s
    IN  [p \in 1..(Len(s) + 1) |-> Match(<<re.tree>>, subject, p, re.ci)]

\* the leftmost position from p on at which a match starts (0: none)
FirstStart(ends, p) ==
    LET at == { q \in p..Len(ends) : ends[q] # 0 }
    IN  IF at = {} THEN 0 ELSE CHOOSE q \in at : \A q2 \in at : q <= q2

\* String.prototype.match with a global regular expression: the matches,
\* leftmost first and not overlapping, each as [from, to) positions.  After
\* an empty match the scan advances by one position.
RECURSIVE MatchAllFrom(_, _)
MatchAllFrom(ends, p) ==
    LET q == FirstStart(ends, p)
    IN  IF q = 0 THEN <<>>
        ELSE << [from |-> q, to |-> ends[q]] >>
             \o MatchAllFrom(ends, IF ends[q] = q THEN q + 1 ELSE ends[q])

MatchAll(re, s) == MatchAllFrom(EndsOf(re, s), 1)

\* a replace whose result is dropped
ReplaceSpansDropped(s, spans, p, repl) == SubSeq(s, p, Len(s))

\* String.prototype.replace with a global regular expression and a
\* replacement string: every match span is replaced.
RECURSIVE ReplaceSpans(_, _, _, _)
ReplaceSpans(s, spans, p, repl) ==
    IF Len(spans) = 0 THEN SubSeq(s, p, Len(s))
    ELSE SubSeq(s, p, Head(spans).from - 1) \o repl
         \o ReplaceSpans(s, Tail(spans), Head(spans).to, repl)

Replace(s, re, repl) == ReplaceSpans(s, MatchAll(re, s), 1, repl)

\* ------------------------------------------------------------------------
\* src/sanitizer.ts: the category registry and the pattern table
\* ------------------------------------------------------------------------

\* Object.keys(REDACTION_CATEGORIES), in declaration order
ALL_REDACTION_CATEGORIES ==
    << "credit_cards", "bank_accounts", "tax_ids", "passwords", "api_keys",
       "otp_codes", "phone_numbers", "physical_addresses", "ip_addresses",
       "government_ids", "token_urls", "case_numbers", "claim_numbers",
       "auth_codes", "device_ids", "employee_ids", "dates_of_birth", "ages",
       "member_ids", "vehicle_ids", "medical_ids", "email_addresses",
       "order_numbers", "tracking_numbers", "booking_references",
       "financial_amounts", "regular_urls" >>

D == C(Digit)
Dn(n) == Rep(D, n, n)
Drange(lo, hi) == Rep(D, lo, hi)
\* [\s\-]
SepSD == C(Space \cup {"-"})
\* [\s\-\.]
SepSDD == C(Space \cup {"-", "."})
WS0 == Star(C(Space))
WS1 == Plus(C(Space))
\* [A-Z0-9\-]
IdCh == C(Upper \cup Digit \cup {"-"})
\* (?:\s*(?:#|number|no\.?)?:?\s*)
NumberLabel ==
    Cat(<<WS0, Opt(Alt(<<L("#"), L("number"), Cat(<<L("no"), Opt(L("."))>>)>>)),
          Opt(L(":")), WS0>>)
\* (?:\s*(?:#|number|no\.?|id)?:?\s*)
NumberIdLabel ==
    Cat(<<WS0, Opt(Alt(<<L("#"), L("number"), Cat(<<L("no"), Opt(L("."))>>),
                         L("id")>>)),
          Opt(L(":")), WS0>>)
\* (?:#|number|no\.?)?:?\s*
CardLabel ==
    Cat(<<Opt(Alt(<<L("#"), L("number"), Cat(<<L("no"), Opt(L("."))>>)>>)),
          Opt(L(":")), WS0>>)
\* [\s\-]?[0-9]{4}[\s\-]?[0-9]{4}[\s\-]?[0-9]{4}\b
Card12 ==
    Cat(<<Opt(SepSD), Dn(4), Opt(SepSD), Dn(4), Opt(SepSD), Dn(4), WB>>)

CreditCardPatterns ==
    << RegExp(Cat(<<WB, L("4"), Dn(3), Card12>>), FALSE),
       RegExp(Cat(<<WB, Alt(<<Cat(<<L("5"), C(CharsOf("12345")), Dn(2)>>),
                              Cat(<<L("2"), C(CharsOf("234567")), Dn(2)>>)>>),
                    Card12>>), FALSE),
       RegExp(Cat(<<WB, L("3"), C({"4", "7"}), Dn(2), Opt(SepSD), Dn(6),
                    Opt(SepSD), Dn(5), WB>>), FALSE),
       RegExp(Cat(<<WB, L("6"),
                    Alt(<<L("011"), Cat(<<L("5"), Dn(2)>>),
                          Cat(<<L("4"), C(CharsOf("456789")), D>>)>>),
                    Card12>>), FALSE),
       RegExp(Cat(<<WB, Dn(4), SepSD, Dn(4), SepSD, Dn(4), SepSD, Dn(4), WB>>),
              FALSE),
       RegExp(Cat(<<WB,
                    Alt(<<L("card"), L("ending"), L("ends"),
                          Cat(<<L("last"), WS0, L("4")>>)>>),
                    WS1,
                    Opt(Alt(<<L("in"), Cat(<<L("digit"), Opt(L("s"))>>),
                              L("number")>>)),
                    Opt(L(":")), WS0, Dn(4), WB>>), TRUE),
       RegExp(Cat(<<Rep(C({"."}), 2, Inf), Dn(4), WB>>), FALSE),
       RegExp(Cat(<<Rep(C({"*"}), 2, Inf), Dn(4), WB>>), FALSE),
       RegExp(Cat(<<Rep(C({"x", "X"}), 2, Inf), Dn(4), WB>>), FALSE),
       RegExp(Cat(<<L("(..."), Dn(4), L(")")>>), FALSE),
       RegExp(Cat(<<Rep(C({"*", "x", "X"}), 4, Inf), Dn(4), WB>>), TRUE),
       RegExp(Cat(<<WB, Alt(<<L("your"), L("my"), L("the")>>), WS1,
                    Opt(Cat(<<Plus(C(WordCh)), WS1>>)), L("card"), WS1,
                    Drange(8, 20), WB>>), TRUE),
       RegExp(Cat(<<WB, L("card"), WS0, CardLabel, Drange(8, 20), WB>>), TRUE),
       RegExp(Cat(<<WB, L("control"), WS0, CardLabel, Drange(8, 20), WB>>), TRUE),
       RegExp(Cat(<<WB, Opt(Cat(<<Plus(C(WordCh)), WS1>>)), L("agreement"), WS0,
                    CardLabel, Drange(8, 20), WB>>), TRUE),
       RegExp(Cat(<<WB, L("number"), Opt(L(":")), WS0, Drange(8, 20), WB>>),
              TRUE) >>

TaxIdPatterns ==
    << RegExp(Cat(<<WB, Dn(3), SepSD, Dn(2), SepSD, Dn(4), WB>>), FALSE),
       RegExp(Cat(<<WB, Dn(2), SepSD, Dn(7), WB>>), FALSE),
       RegExp(Cat(<<WB,
                    Alt(<<L("ssn"), Cat(<<L("social"), WS0, L("security")>>),
                          L("tin"), Cat(<<L("tax"), WS0, L("id")>>), L("ein"),
                          L("itin")>>),
                    NumberLabel,
                    Rep(C(Digit \cup Space \cup {"-"}), 9, 11), WB>>), TRUE),
       RegExp(Cat(<<WB, Dn(3), SepSD, Dn(3), SepSD, Dn(3), WB>>), FALSE),
       RegExp(Cat(<<WB, Rep(C(Upper), 2, 2), Dn(6), C(Upper), WB>>), FALSE),
       RegExp(Cat(<<WB, Alt(<<L("tfn"), Cat(<<L("tax"), WS0, L("file")>>)>>),
                    NumberLabel, Dn(3), Opt(C(Space)), Dn(3), Opt(C(Space)),
                    Dn(3), WB>>), TRUE) >>

Quote == C({"\"", "'"})
\* (?:\s*(?:is|was|:)\s*)
IsWas == Cat(<<WS0, Alt(<<L("is"), L("was"), L(":")>>), WS0>>)

PasswordPatterns ==
    << RegExp(Cat(<<WB,
                    Alt(<<L("password"), L("passwd"), L("pwd"), L("pin"),
                          L("passcode"), L("secret")>>),
                    IsWas, Opt(Quote), Rep(NC(Space \cup {"\"", "'"}), 4, 50),
                    Opt(Quote)>>), TRUE),
       RegExp(Cat(<<WB,
                    Alt(<<L("temporary"), L("temp"), L("new"), L("initial"),
                          L("default")>>),
                    WS1, Alt(<<L("password"), L("pwd"), L("pin")>>),
                    IsWas, Opt(Quote), Rep(NC(Space \cup {"\"", "'"}), 4, 50),
                    Opt(Quote)>>), TRUE),
       RegExp(Cat(<<Alt(<<L("your"), L("the")>>), WS1,
                    Alt(<<L("password"), L("pin"), L("passcode")>>), WS1,
                    Alt(<<L("is"), L("was"), L(":")>>), WS0, Opt(Quote),
                    Rep(NC(Space \cup {"\"", "'", "\n"}), 4, 50), Opt(Quote)>>),
              TRUE) >>

PhonePatterns ==
    << RegExp(Cat(<<L("+1"), Dn(10), WB>>), FALSE),
       RegExp(Cat(<<WB, Opt(Cat(<<Opt(L("+")), L("1"), Opt(SepSDD)>>)),
                    Opt(L("(")), Dn(3), Opt(L(")")), SepSDD, Dn(3), SepSDD,
                    Dn(4), WB>>), FALSE),
       RegExp(Cat(<<WB, C(CharsOf("23456789")), Dn(2), C(CharsOf("23456789")),
                    Dn(6), WB>>), FALSE),
       RegExp(Cat(<<L("+"), Drange(1, 3), SepSDD, Drange(1, 4), SepSDD,
                    Drange(1, 4), SepSDD, Drange(1, 4), Opt(SepSDD),
                    Drange(0, 4), WB>>), FALSE),
       RegExp(Cat(<<L("+"), Drange(11, 15), WB>>), FALSE),
       RegExp(Cat(<<WB, Alt(<<L("+44"), L("0")>>), Opt(SepSDD), Dn(4),
                    Opt(SepSDD), Dn(6), WB>>), FALSE),
       RegExp(Cat(<<WB,
                    Alt(<<L("phone"), L("tel"), L("mobile"), L("cell"), L("fax"),
                          L("call")>>),
                    NumberLabel, Opt(L("+")),
                    Rep(C(Digit \cup Space \cup {"-", ".", "(", ")"}), 7, 20),
                    WB>>), TRUE) >>

OrderPatterns ==
    << RegExp(Cat(<<WB,
                    Alt(<<L("order"), L("confirmation"), L("invoice"),
                          L("receipt"), L("transaction"), L("purchase")>>),
                    NumberIdLabel, Opt(L("(")), Rep(IdCh, 6, 20), Opt(L(")")),
                    WB>>), TRUE),
       RegExp(Cat(<<WB, Alt(<<L("order"), L("conf"), L("inv")>>), WS0,
                    Opt(L("#")), WS0, Opt(L("(")), Rep(IdCh, 6, 20),
                    Opt(L(")")), WB>>), TRUE),
       RegExp(Cat(<<WB, Alt(<<L("reference"), L("ref")>>), NumberLabel,
                    Rep(IdCh, 6, 20), WB>>), TRUE) >>

MemberPatterns ==
    << RegExp(Cat(<<WB, Alt(<<L("member"), L("membership")>>), NumberIdLabel,
                    Rep(IdCh, 6, 20), WB>>), TRUE),
       RegExp(Cat(<<WB,
                    Alt(<<L("loyalty"), Cat(<<L("reward"), Opt(L("s"))>>),
                          L("points")>>),
                    NumberIdLabel, Rep(IdCh, 6, 20), WB>>), TRUE),
       RegExp(Cat(<<WB, Alt(<<L("customer"), L("client"), L("user")>>),
                    NumberIdLabel, Rep(IdCh, 6, 20), WB>>), TRUE),
       RegExp(Cat(<<WB, Alt(<<L("account"), L("acct")>>), NumberLabel,
                    Rep(IdCh, 6, 15), WB>>), TRUE),
       RegExp(Cat(<<WB, Alt(<<L("subscriber"), L("subscription")>>),
                    NumberIdLabel, Rep(IdCh, 6, 20), WB>>), TRUE),
       RegExp(Cat(<<WB,
                    Alt(<<L("rr"), L("ff"), L("mp"), L("sk"), L("aa"), L("ua"),
                          L("dl"), L("wn")>>),
                    WS0, Opt(L("#")), WS0, Drange(8, 12), WB>>), TRUE),
       RegExp(Cat(<<WB,
                    Alt(<<Cat(<<L("rapid"), WS0, L("reward"), Opt(L("s"))>>),
                          Cat(<<L("mileage"), WS0, L("plus")>>),
                          Cat(<<L("sky"), WS0, L("mile"), Opt(L("s"))>>),
                          L("aadvantage"),
                          Cat(<<L("frequent"), WS0, L("flyer")>>)>>),
                    WS0,
                    Opt(Alt(<<L("#"), L("number"), Cat(<<L("no"), Opt(L("."))>>),
                              L("id"), L("account")>>)),
                    Opt(L(":")), WS0, Drange(8, 12), WB>>), TRUE),
       RegExp(Cat(<<WB, Plus(C(Alpha)), WS0, L("id"), Opt(L(":")), WS0,
                    Rep(IdCh, 4, 20), WB>>), TRUE) >>

\* The entries of PATTERNS for the categories the model covers, in the order
\* of the array in the source.
PATTERNS ==
    << [category |-> "credit_cards", patterns |-> CreditCardPatterns,
        replacement |-> "[REDACTED_CARD]"],
       [category |-> "tax_ids", patterns |-> TaxIdPatterns,
        replacement |-> "[REDACTED_TAX_ID]"],
       [category |-> "passwords", patterns |-> PasswordPatterns,
        replacement |-> "[REDACTED_PASSWORD]"],
       [category |-> "phone_numbers", patterns |-> PhonePatterns,
        replacement |-> "[REDACTED_PHONE]"],
       [category |-> "order_numbers", patterns |-> OrderPatterns,
        replacement |-> "[REDACTED_ORDER]"],
       [category |-> "member_ids", patterns |-> MemberPatterns,
        replacement |-> "[REDACTED_MEMBER_ID]"] >>

\* ------------------------------------------------------------------------
\* Inputs of the sanitizer
\* ------------------------------------------------------------------------
MaxCats == 2
MaxCalls == 2

\* The texts are words joined by single spaces: context words, sensitive
\* items, and a placeholder token already present in the input.
ContextWords == {"pin:", "number:", "My SSN is", "Order ID:"}
SsnItems == {"123-45-6789"}
CardItems == {"4111 1111 1111 1111"}
PhoneItems == {"2125551234", "212 555 1234"}
ItemWords == SsnItems \cup CardItems \cup PhoneItems
PlaceholderWords == {"[REDACTED_TAX_ID]"}
Words == ContextWords \cup ItemWords \cup PlaceholderWords

\* the category a sensitive item belongs to
ItemCategory(w) ==
    IF w \in SsnItems THEN "tax_ids"
    ELSE IF w \in CardItems THEN "credit_cards"
    ELSE "phone_numbers"

RECURSIVE Join(_)
Join(ws) ==
    IF Len(ws) = 0 THEN ""
    ELSE IF Len(ws) = 1 THEN ws[1]
    ELSE ws[1] \o " " \o Join(Tail(ws))

\* the empty text, one word, or a context word or placeholder before an item
WordSeqs ==
    {<<>>} \cup { <<w>> : w \in Words }
    \cup { <<w, i>> : w \in ContextWords \cup PlaceholderWords, i \in ItemWords }

Range(f) == { f[i] : i \in DOMAIN f }

ModelledCategories == { PATTERNS[i].category : i \in 1..Len(PATTERNS) }

\* options.categories: an array without repetitions, in any order
CategoryLists ==
    { cs \in UNION { [1..n -> ModelledCategories] : n \in 0..MaxCats } :
        \A i, j \in 1..Len(cs) : i # j => cs[i] # cs[j] }

SanitizeOptions == [enabled : BOOLEAN, categories : CategoryLists]

RegistrySet == Range(ALL_REDACTION_CATEGORIES)

\* the object {} : no key at all
EmptyObject == [c \in {} |-> 0]

\* ------------------------------------------------------------------------
\* State
\* ------------------------------------------------------------------------
VARIABLES
    pc,                \* "idle", "loop" (inside sanitizeText) or "done"
    words,             \* the words the first input text was built from
    text,              \* sanitizeText: parameter text
    options,           \* sanitizeText: parameter options
    result,            \* sanitizeText: let result
    totalCount,        \* sanitizeText: let totalCount
    countsByCategory,  \* sanitizeText: const countsByCategory
    pi,                \* index of the entry of PATTERNS the outer loop is at
    ri,                \* index of the regex the inner loop is at
    ret,               \* the value the last call returned
    calls,             \* number of calls made
    firstRet,          \* the value the first call returned
    marks,             \* where the placeholders written by this call lie in result
    rematched,         \* a match of one category covered a placeholder of another
    log,               \* the pattern applications of this call, in order
    lastIndex          \* lastIndex of the pattern objects that were used, by
                       \* <<category, index>>; it is 0 in an object never used

sanVars == <<pc, words, text, options, result, totalCount, countsByCategory,
             pi, ri, ret, calls, firstRet, marks, rematched, log, lastIndex>>

VARIABLES
    apc,               \* "idle", "walk" (inside collectAttachmentTypes) or "done"
    stack,             \* the parts walk has still to be called on, next one first
    part,              \* walk: parameter part of the last call
    types,             \* collectAttachmentTypes: const types (a Set)
    count,             \* collectAttachmentTypes: let count
    added,             \* the types the last call of walk added
    visited,           \* number of parts walk was called on
    declared,          \* number of parts of the payload known so far
    parentCounted,     \* the parent of the last part was counted as an attachment
    aret               \* the value collectAttachmentTypes returned

attVars == <<apc, stack, part, types, count, added, visited, declared,
             parentCounted, aret>>

VARIABLES
    bpc,               \* "idle", "walk", "html", "clean", "done" or "threw"
    fn,                \* what was called: "extractBodyText" or "extractBodyHtml"
    maxChars,          \* parameter maxChars
    bstack,            \* the depths of the parts walk has still to be called on
    bdeclared,         \* number of parts of the payload known so far
    bvisited,          \* number of calls of walk on a part
    bpart,             \* the part of the call of walk in progress
    plainParts,        \* const plainParts
    htmlParts,         \* const htmlParts
    out,               \* let out; inside htmlToTextKeepingLinks, let s
    step,              \* the next step of the chain being applied to out
    bret               \* the value returned

bodyVars == <<bpc, fn, maxChars, bstack, bdeclared, bvisited, bpart, plainParts,
              htmlParts, out, step, bret>>

VARIABLES
    epc,               \* "idle" or "done"
    raw,               \* parameter raw of parseEmail
    eret               \* the value returned by parseEmail

addrVars == <<epc, raw, eret>>

parserVars == <<attVars, bodyVars, addrVars>>

VARIABLES
    disk,              \* the files: path -> the chunks written to it, in order
    output,            \* createOutputManager: the variables of its closure
    writes,            \* the calls of output.write, in order
    split,             \* splitCsvBySize.mjs, main: its variables
    run,               \* runExport: its variables
    proc               \* index.ts, main: the process

appVars == <<disk, output, writes, split, run, proc>>

vars == <<sanVars, parserVars, appVars>>

\* an optional value: undefined, or the value
Undefined == <<>>
Some(v) == <<v>>
\* o ?? d
OrElse(o, d) == IF o = Undefined THEN d ELSE o[1]

AttInit ==
    /\ apc = "idle"
    /\ stack = <<>>
    /\ part = Undefined
    /\ types = {}
    /\ count = 0
    /\ added = {}
    /\ visited = 0
    /\ declared = 0
    /\ parentCounted = FALSE
    /\ aret = [hasAttachment |-> FALSE, types |-> <<>>, count |-> 0]

AddrInit ==
    /\ epc = "idle"
    /\ raw = <<>>
    /\ eret = [name |-> "", email |-> ""]

BodyInit ==
    /\ bpc = "idle"
    /\ fn = ""
    /\ maxChars = 0
    /\ bstack = <<>>
    /\ bdeclared = 0
    /\ bvisited = 0
    /\ bpart = Undefined
    /\ plainParts = <<>>
    /\ htmlParts = <<>>
    /\ out = ""
    /\ step = 1
    /\ bret = ""

NoRet == [text |-> "", redactionCount |-> 0, redactionsByCategory |-> EmptyObject]

SanInit ==
    /\ pc = "idle"
    /\ words = <<>>
    /\ text = ""
    /\ options = [enabled |-> FALSE, categories |-> <<>>]
    /\ result = ""
    /\ totalCount = 0
    /\ countsByCategory = EmptyObject
    /\ pi = 1
    /\ ri = 1
    /\ ret = NoRet
    /\ calls = 0
    /\ firstRet = NoRet
    /\ marks = {}
    /\ rematched = FALSE
    /\ log = <<>>
    /\ lastIndex = <<>>

\* options.categories.includes(category)
Includes(categories, category) == \E i \in 1..Len(categories) : categories[i] = category

\* sanitizeText, from its entry to the return of the guard or to the loops
Enter(t, o) ==
    /\ text' = t
    /\ options' = o
    /\ calls' = calls + 1
    /\ marks' = {}
    /\ rematched' = FALSE
    /\ log' = <<>>
    /\ pi' = 1
    /\ ri' = 1
    /\ UNCHANGED lastIndex
    /\ UNCHANGED <<parserVars, appVars>>
    /\ IF ~o.enabled \/ t = ""
       THEN /\ pc' = "done"
            /\ ret' = [text |-> t, redactionCount |-> 0,
                       redactionsByCategory |-> EmptyObject]
            /\ firstRet' = IF calls = 0 THEN ret' ELSE firstRet
            /\ UNCHANGED <<result, totalCount, countsByCategory>>
       ELSE /\ pc' = "loop"
            /\ result' = t
            /\ totalCount' = 0
            /\ countsByCategory' = [c \in RegistrySet |-> 0]
            /\ UNCHANGED <<ret, firstRet>>

\* a first call, on any text and options
Call ==
    /\ pc = "idle"
    /\ \E ws \in WordSeqs, o \in SanitizeOptions :
          /\ words' = ws
          /\ Enter(Join(ws), o)

\* sanitizeText called again on its own output, with the same options
CallOnOutput ==
    /\ pc = "done"
    /\ calls < MaxCalls
    /\ words' = words
    /\ Enter(ret.text, options)

\* for (const pattern of PATTERNS): the category is not enabled, continue
SkipCategory ==
    /\ pc = "loop"
    /\ pi <= Len(PATTERNS)
    /\ ~Includes(options.categories, PATTERNS[pi].category)
    /\ pi' = pi + 1
    /\ ri' = 1
    /\ UNCHANGED <<pc, words, text, options, result, totalCount, countsByCategory,
                   ret, calls, firstRet, marks, rematched, log, lastIndex>>
    /\ UNCHANGED <<parserVars, appVars>>

Overlaps(m, k) == m.from < k.to /\ k.from < m.to

\* the change of length before position p when the spans ms become repl
RECURSIVE Shift(_, _, _)
Shift(ms, p, len) ==
    IF Len(ms) = 0 \/ Head(ms).to > p THEN 0
    ELSE len - (Head(ms).to - Head(ms).from) + Shift(Tail(ms), p, len)

MarksAfter(old, ms, cat, len) ==
    { [from |-> k.from + Shift(ms, k.from, len),
       to |-> k.to + Shift(ms, k.from, len), cat |-> k.cat] :
         k \in { k \in old : \A j \in 1..Len(ms) : ~Overlaps(ms[j], k) } }
    \cup
    { [from |-> ms[j].from + Shift(ms, ms[j].from, len),
       to |-> ms[j].from + Shift(ms, ms[j].from, len) + len, cat |-> cat] :
         j \in 1..Len(ms) }

\* every regex matched against the text as passed in
SubjectOriginal == text

\* the text a regex of the inner loop is matched against
Subject == result

\* lastIndex of the pattern object k
LastIndexOf(k) == IF k \in DOMAIN lastIndex THEN lastIndex[k] ELSE 0

\* lastIndex of a global regex after exec or test found the matches ms: the
\* end of the last match found
LastIndexAfterExec(ms) == IF Len(ms) = 0 THEN 0 ELSE ms[Len(ms)].to - 1

\* lastIndex of a global regex after String.prototype.match and
\* String.prototype.replace found the matches ms: both scan until no match
\* is left, and the failed search sets lastIndex to 0
LastIndexAfter(ms) == 0

\* regex.lastIndex = 0; result.match(regex); result.replace(regex, ...):
\* the scan starts at the lastIndex assigned, the methods leave theirs
LastIndexStep(k, ms) ==
    [j \in DOMAIN lastIndex \cup {k} |->
        IF j = k THEN LastIndexAfter(ms) ELSE lastIndex[j]]

\* one iteration of for (const regex of pattern.patterns)
ApplyRegex ==
    /\ pc = "loop"
    /\ pi <= Len(PATTERNS)
    /\ Includes(options.categories, PATTERNS[pi].category)
    /\ \E pattern \in {PATTERNS[pi]} :
       \E matches \in {MatchAll(pattern.patterns[ri], Subject)} :
       \E replaced \in {ReplaceSpans(Subject, matches, 1, pattern.replacement)} :
           /\ countsByCategory' =
                 [countsByCategory EXCEPT ![pattern.category] = @ + Len(matches)]
           /\ totalCount' = totalCount + Len(matches)
           /\ result' = replaced
           /\ rematched' = (rematched \/ \E j \in 1..Len(matches) : \E k \in marks :
                                Overlaps(matches[j], k) /\ k.cat # pattern.category)
           /\ marks' = MarksAfter(marks, matches, pattern.category,
                                  Len(pattern.replacement))
           /\ log' = Append(log, [pi |-> pi, ri |-> ri, category |-> pattern.category,
                                  on |-> Subject, n |-> Len(matches), out |-> replaced])
           /\ lastIndex' = LastIndexStep(<<pattern.category, ri>>, matches)
           /\ IF ri < Len(pattern.patterns)
              THEN pi' = pi /\ ri' = ri + 1
              ELSE pi' = pi + 1 /\ ri' = 1
    /\ UNCHANGED <<pc, words, text, options, ret, calls, firstRet>>
    /\ UNCHANGED <<parserVars, appVars>>

\* the loops are over: return
Return ==
    /\ pc = "loop"
    /\ pi > Len(PATTERNS)
    /\ pc' = "done"
    /\ ret' = [text |-> result, redactionCount |-> totalCount,
               redactionsByCategory |-> countsByCategory]
    /\ firstRet' = IF calls = 1 THEN ret' ELSE firstRet
    /\ UNCHANGED <<words, text, options, result, totalCount, countsByCategory,
                   pi, ri, calls, marks, rematched, log, lastIndex>>
    /\ UNCHANGED <<parserVars, appVars>>

\* no file written, no output manager, no process started
AppInit ==
    /\ disk = <<>>
    /\ output = Undefined
    /\ writes = <<>>
    /\ split = [pc |-> "idle"]
    /\ run = [pc |-> "idle"]
    /\ proc = [pc |-> "idle"]

Init == SanInit /\ AttInit /\ BodyInit /\ AddrInit /\ AppInit

Next == Call \/ CallOnOutput \/ SkipCategory \/ ApplyRegex \/ Return

Spec == Init /\ [][Next]_vars

\* ------------------------------------------------------------------------
\* Properties of sanitizeText
\* ------------------------------------------------------------------------
Contains(s, sub) ==
    \E i \in 1..(Len(s) - Len(sub) + 1) : SubSeq(s, i, i + Len(sub) - 1) = sub

Occurrences(sub, s) ==
    Cardinality({ i \in 1..(Len(s) - Len(sub) + 1) : SubSeq(s, i, i + Len(sub) - 1) = sub })

AllCountsZero(r) ==
    \A c \in RegistrySet :
        c \in DOMAIN r.redactionsByCategory /\ r.redactionsByCategory[c] = 0

\* the loops of sanitizeText ran in the call that has returned
Sanitized == pc = "done" /\ options.enabled /\ text # ""

\* C1: with enabled = false sanitizeText returns the text unchanged, a total
\* count of 0 and a count map holding every category of the registry with 0.
C1_DisabledReturnsZeroForEveryCategory ==
    (pc = "done" /\ ~options.enabled) =>
        /\ ret.text = text
        /\ ret.redactionCount = 0
        /\ AllCountsZero(ret)

\* C2: within one pass no pattern of a category matches a substring that
\* holds all or part of a placeholder written earlier in the pass by a
\* different category.
C2_NoCategoryMatchesAnotherPlaceholder == ~rematched

\* C3: sanitizeText called on its own output with the same configuration
\* returns that text unchanged with a total count of 0.
C3_FixedPointOnOwnOutput ==
    (pc = "done" /\ calls = 2) =>
        /\ ret.text = firstRet.text
        /\ ret.redactionCount = 0

PatternIndex(c) == CHOOSE i \in 1..Len(PATTERNS) : PATTERNS[i].category = c

RegistryIndex(c) ==
    CHOOSE i \in 1..Len(ALL_REDACTION_CATEGORIES) : ALL_REDACTION_CATEGORIES[i] = c

\* C4, as stated: the enabled categories are applied in the order of
\* ALL_REDACTION_CATEGORIES.
C4_AppliedInRegistryOrder ==
    \A i, j \in 1..Len(log) :
        i < j => RegistryIndex(log[i].category) <= RegistryIndex(log[j].category)

\* the (entry, regex) pairs of PATTERNS from entry p on whose category is in cs
RECURSIVE ScheduleFrom(_, _)
ScheduleFrom(p, cs) ==
    IF p > Len(PATTERNS) THEN <<>>
    ELSE (IF PATTERNS[p].category \in cs
          THEN [r \in 1..Len(PATTERNS[p].patterns) |-> <<p, r>>]
          ELSE <<>>)
         \o ScheduleFrom(p + 1, cs)

\* the matches counted by the first k log entries for the categories in cs
RECURSIVE SumN(_, _)
SumN(k, cs) ==
    IF k = 0 THEN 0
    ELSE (IF log[k].category \in cs THEN log[k].n ELSE 0) + SumN(k - 1, cs)

\* C4, amended: the enabled categories are applied in the order of the
\* PATTERNS array, whatever the order of options.categories, and inside a
\* category the patterns in declared order; each pattern is matched against
\* the current, already replaced text, and its match count is added to the
\* category tally and to the total.
C4_AppliedInPatternsOrder ==
    (pc = "loop" \/ Sanitized) =>
        LET sched == ScheduleFrom(1, Range(options.categories))
        IN  /\ Len(log) <= Len(sched)
            /\ pc = "done" => Len(log) = Len(sched)
            /\ \A k \in 1..Len(log) :
                  /\ <<log[k].pi, log[k].ri>> = sched[k]
                  /\ log[k].on = (IF k = 1 THEN text ELSE log[k - 1].out)
            /\ result = (IF Len(log) = 0 THEN text ELSE log[Len(log)].out)
            /\ totalCount = SumN(Len(log), RegistrySet)
            /\ \A c \in RegistrySet :
                  countsByCategory[c] =
                      (IF c \in Range(options.categories) THEN SumN(Len(log), {c}) ELSE 0)

\* two categories listed against the order of PATTERNS, both with matches,
\* the second on text the first had replaced
C4_Witness ==
    /\ Sanitized
    /\ Len(options.categories) = 2
    /\ PatternIndex(options.categories[1]) > PatternIndex(options.categories[2])
    /\ ret.redactionsByCategory[options.categories[1]] > 0
    /\ ret.redactionsByCategory[options.categories[2]] > 0
    /\ \E k \in 1..Len(log) : log[k].n > 0 /\ log[k].on # text

\* C5: with phone_numbers not enabled, every phone-number-shaped substring
\* of the input is in the output unchanged and the phone_numbers count is 0.
C5_PhoneNumbersUntouchedWhenDisabled ==
    (Sanitized /\ calls = 1 /\ ~Includes(options.categories, "phone_numbers")) =>
        /\ ret.redactionsByCategory["phone_numbers"] = 0
        /\ \A k \in 1..Len(words) : words[k] \in PhoneItems => Contains(ret.text, words[k])

Placeholder(c) == PATTERNS[PatternIndex(c)].replacement

\* the input holds exactly one sensitive item, and it is of category c
OneItemOf(c) ==
    \E k \in 1..Len(words) :
        /\ words[k] \in ItemWords
        /\ ItemCategory(words[k]) = c
        /\ \A j \in 1..Len(words) : j # k => words[j] \notin ItemWords

OneItemResult(c) ==
    /\ Occurrences(Placeholder(c), ret.text) = 1
    /\ ret.redactionCount = 1
    /\ \A d \in RegistrySet : ret.redactionsByCategory[d] = (IF d = c THEN 1 ELSE 0)

\* C6, as stated: for a text holding exactly one sensitive item of the one
\* enabled category, the output holds the placeholder exactly once, the
\* count of the category is 1, every other count is 0 and the total is 1.
C6_OneItemOnePlaceholder ==
    (Sanitized /\ calls = 1 /\ Len(options.categories) = 1
       /\ OneItemOf(options.categories[1]))
    => OneItemResult(options.categories[1])

\* C6, amended: the same, for a text that does not already hold the
\* placeholder of the category.
C6_OneItemOnePlaceholderFresh ==
    (Sanitized /\ calls = 1 /\ Len(options.categories) = 1
       /\ OneItemOf(options.categories[1])
       /\ ~Contains(text, Placeholder(options.categories[1])))
    => OneItemResult(options.categories[1])

\* the example of the specification: "My SSN is 123-45-6789", tax_ids only
C6_Witness ==
    /\ Sanitized
    /\ calls = 1
    /\ text = "My SSN is 123-45-6789"
    /\ options.categories = <<"tax_ids">>
    /\ ret.text = "My SSN is [REDACTED_TAX_ID]"

\* C7: enabled with an empty category list is a no-op: the text unchanged,
\* a total count of 0 and every category of the registry present with 0.
C7_EmptyCategoryListIsNoOp ==
    (pc = "done" /\ options.enabled /\ Len(options.categories) = 0) =>
        /\ ret.text = text
        /\ ret.redactionCount = 0
        /\ AllCountsZero(ret)

\* ------------------------------------------------------------------------
\* collectAttachmentTypes (src/parser.ts)
\* ------------------------------------------------------------------------
MaxDepth == 2
MaxParts == 3

\* the printable ASCII characters in code unit order: U+0020 to U+005F,
\* and U+0061 to U+007E
AsciiLow == " !\"#$%&'()*+,-./0123456789:;<=>?@ABCDEFGHIJKLMNOPQRSTUVWXYZ[\\]^_"
AsciiHigh == "abcdefghijklmnopqrstuvwxyz{|}~"

CodeOf(c) ==
    IF c \in CharsOf(AsciiLow) THEN 31 + IndexIn(c, AsciiLow)
    ELSE 96 + IndexIn(c, AsciiHigh)

\* a < b in the order of Array.prototype.sort without a comparator
RECURSIVE StrLess(_, _)
StrLess(a, b) ==
    IF Len(b) = 0 THEN FALSE
    ELSE IF Len(a) = 0 THEN TRUE
    ELSE IF CodeOf(Ch(a, 1)) # CodeOf(Ch(b, 1)) THEN CodeOf(Ch(a, 1)) < CodeOf(Ch(b, 1))
    ELSE StrLess(Tail(a), Tail(b))

\* the array in descending order
RECURSIVE SortedDescending(_)
SortedDescending(S) ==
    IF S = {} THEN <<>>
    ELSE LET m == CHOOSE x \in S : \A y \in S \ {x} : StrLess(y, x)
         IN  <<m>> \o SortedDescending(S \ {m})

\* Array.from(set).sort()
RECURSIVE SortedArray(_)
SortedArray(S) ==
    IF S = {} THEN <<>>
    ELSE LET m == CHOOSE x \in S : \A y \in S \ {x} : StrLess(x, y)
         IN  <<m>> \o SortedArray(S \ {m})

\* String.prototype.trim
Trim(s) ==
    LET keep == { i \in 1..Len(s) : Ch(s, i) \notin Space }
    IN  IF keep = {} THEN ""
        ELSE SubSeq(s, CHOOSE i \in keep : \A j \in keep : i <= j,
                       CHOOSE i \in keep : \A j \in keep : j <= i)

\* !!o for an optional string
Truthy(o) == o # Undefined /\ o[1] # ""

\* The parts a payload is made of.  The field parts holds the length of the
\* array: the children themselves are drawn when walk is called on them.
AttachmentIds == {Undefined, Some(""), Some("ANGjdJ8")}
Sizes == {Undefined, Some(0), Some(1024)}
Bodies ==
    {Undefined} \cup
    { Some([attachmentId |-> Undefined, size |-> z]) : z \in Sizes } \cup
    { Some([attachmentId |-> a, size |-> Some(0)]) : a \in AttachmentIds }

\* every kind of filename with every kind of body, and an attachment body
\* with every shape of filename and every kind of mimeType
PartFields ==
    [filename : {Undefined, Some(" "), Some("Report.PDF")},
     mimeType : {Some("Application/PDF")},
     body : Bodies]
    \cup
    [filename : { Some(f) : f \in {" notes.txt ", "archive.tar.gz", "x.abcdefghij",
                                   "x.abcdefghijk", "odd.p-f"} },
     mimeType : {Some("Application/PDF")},
     body : {Some([attachmentId |-> Some("ANGjdJ8"), size |-> Some(0)])}]
    \cup
    [filename : {Some("README")},
     mimeType : {Undefined, Some(""), Some("Application/PDF")},
     body : {Some([attachmentId |-> Undefined, size |-> Some(1024)])}]

PartsLengths(depth, room) ==
    {Undefined} \cup { Some(n) : n \in 0..(IF depth < MaxDepth THEN room ELSE 0) }

\* /\.([a-z0-9]{1,10})$/
ExtRegex == RegExp(Cat(<<L("."), Rep(C(Lower \cup Digit), 1, 10), EOS>>), FALSE)

\* the regex matched without lowercasing the filename
ExtOfRaw(filename) ==
    LET ms == MatchAll(ExtRegex, filename)
    IN  IF Len(ms) = 0 THEN Undefined
        ELSE Some(SubSeq(filename, ms[1].from + 1, ms[1].to - 1))

\* filename.toLowerCase().match(/\.([a-z0-9]{1,10})$/)?.[1]
ExtOf(filename) ==
    LET lower == toLowerCase(filename)
        ms == MatchAll(ExtRegex, lower)
    IN  IF Len(ms) = 0 THEN Undefined
        ELSE Some(SubSeq(lower, ms[1].from + 1, ms[1].to - 1))

\* the attachment test of extractBodyText
LooksLikeAttachmentEither(filename, attachmentId, size) ==
    Len(filename) > 0 \/ Truthy(attachmentId)

\* const looksLikeAttachment
LooksLikeAttachment(filename, attachmentId, size) ==
    Len(filename) > 0 /\ (Truthy(attachmentId) \/ size > 0)

\* the value walk adds to types for an attachment part
TypeAdded(p, filename) ==
    LET ext == ExtOf(filename)
    IN  IF Truthy(ext) THEN ext[1]
        ELSE IF Truthy(p.mimeType) THEN toLowerCase(p.mimeType[1])
        ELSE "unknown"

\* collectAttachmentTypes(payload) up to walk(payload)
CollectAttachmentTypes ==
    /\ apc = "idle"
    /\ \E payload \in BOOLEAN :
          /\ stack' = IF payload THEN <<[depth |-> 0, under |-> FALSE]>> ELSE <<>>
          /\ declared' = IF payload THEN 1 ELSE 0
    /\ apc' = "walk"
    /\ types' = {}
    /\ count' = 0
    /\ UNCHANGED <<part, added, visited, parentCounted, aret>>
    /\ UNCHANGED <<sanVars, bodyVars, addrVars, appVars>>

\* one call of walk on a part; its children are walked next, in order
Walk ==
    /\ apc = "walk"
    /\ Len(stack) > 0
    /\ \E fields \in PartFields :
       \E parts \in PartsLengths(Head(stack).depth, MaxParts - declared) :
       \E filename \in {Trim(OrElse(fields.filename, ""))} :
       \E attachmentId \in {IF fields.body = Undefined THEN Undefined
                            ELSE fields.body[1].attachmentId} :
       \E size \in {IF fields.body = Undefined THEN 0
                    ELSE OrElse(fields.body[1].size, 0)} :
       \E looksLikeAttachment \in {LooksLikeAttachment(filename, attachmentId, size)} :
       \E new \in {IF looksLikeAttachment THEN {TypeAdded(fields, filename)} ELSE {}} :
          /\ part' = Some([filename |-> fields.filename, mimeType |-> fields.mimeType,
                           body |-> fields.body, parts |-> parts])
          /\ count' = IF looksLikeAttachment THEN count + 1 ELSE count
          /\ types' = types \cup new
          /\ added' = new
          /\ declared' = declared + OrElse(parts, 0)
          /\ stack' = [k \in 1..OrElse(parts, 0) |->
                          [depth |-> Head(stack).depth + 1,
                           under |-> looksLikeAttachment]]
                      \o Tail(stack)
    /\ visited' = visited + 1
    /\ parentCounted' = Head(stack).under
    /\ UNCHANGED <<apc, aret>>
    /\ UNCHANGED <<sanVars, bodyVars, addrVars, appVars>>

\* walk(payload) is over: return
ReturnTypes ==
    /\ apc = "walk"
    /\ Len(stack) = 0
    /\ apc' = "done"
    /\ aret' = [hasAttachment |-> Cardinality(types) > 0,
                types |-> SortedArray(types),
                count |-> count]
    /\ UNCHANGED <<stack, part, types, count, added, visited, declared, parentCounted>>
    /\ UNCHANGED <<sanVars, bodyVars, addrVars, appVars>>

NextAttach == CollectAttachmentTypes \/ Walk \/ ReturnTypes

SpecAttach == Init /\ [][NextAttach]_vars

\* a part the statement counts as an attachment: a filename that is not
\* empty once trimmed, and an attachmentId that is set (a string that is not
\* empty) or a body.size above 0
ClaimedAttachment(p) ==
    /\ Trim(OrElse(p.filename, "")) # ""
    /\ p.body # Undefined
    /\ \/ p.body[1].attachmentId \notin {Undefined, Some("")}
       \/ p.body[1].size # Undefined /\ p.body[1].size[1] > 0

\* C9: collectAttachmentTypes counts a part if and only if its trimmed
\* filename is not empty and its body has an attachmentId or a size above 0;
\* every part of the tree is walked, the children of counted parts too, and
\* the count returned is the number of such parts.
C9_CountsExactlyTheAttachmentParts ==
    /\ [][visited' = visited + 1 =>
             count' = count + (IF ClaimedAttachment(part'[1]) THEN 1 ELSE 0)]_vars
    /\ [](apc = "done" => visited = declared /\ aret.count = count)

\* an attachment below an attachment, both counted
C9_Witness ==
    /\ apc = "done"
    /\ part # Undefined
    /\ ClaimedAttachment(part[1])
    /\ parentCounted
    /\ aret.count >= 2

\* the positions of "." in s
Dots(s) == { i \in 1..Len(s) : Ch(s, i) = "." }

\* the text after the last "." of s
Suffix(s) == SubSeq(s, (CHOOSE i \in Dots(s) : \A j \in Dots(s) : j <= i) + 1, Len(s))

\* the type the statement gives a part
ClaimedType(p) ==
    LET f == Trim(OrElse(p.filename, ""))
    IN  IF /\ Dots(f) # {}
           /\ Len(Suffix(f)) \in 1..10
           /\ \A i \in 1..Len(Suffix(f)) : Ch(Suffix(f), i) \in Alnum
        THEN toLowerCase(Suffix(f))
        ELSE IF p.mimeType \notin {Undefined, Some("")} THEN toLowerCase(p.mimeType[1])
        ELSE "unknown"

\* C10: for an attachment part exactly one type is recorded: the lowercase
\* suffix after the last "." of the filename when it is 1 to 10
\* alphanumeric characters, else the lowercase mimeType when the part has
\* one, else "unknown"; nothing is recorded for any other part.
C10_OneTypePerAttachment ==
    part # Undefined =>
        added = (IF ClaimedAttachment(part[1]) THEN {ClaimedType(part[1])} ELSE {})

\* one payload with an attachment of each kind
C10_Witness ==
    /\ apc = "done"
    /\ aret.count = 3
    /\ aret.types = <<"application/pdf", "pdf", "unknown">>

\* ------------------------------------------------------------------------
\* Body extraction (src/parser.ts): decodeBase64Url, decodeHtmlEntities,
\* cleanText, htmlToTextKeepingLinks, extractBodyText, extractBodyHtml
\* ------------------------------------------------------------------------
MaxBodyParts == 2

\* A module can hold the code units up to U+00FF only.  Each higher code
\* unit the source names is written as a Latin-1 code unit that no text of
\* the model and no pattern of the source uses.
CodeUnit ==
    [ U2122 |-> "¤",
      U2022 |-> "¦",
      U2013 |-> "¬",
      U2014 |-> "¯",
      U2018 |-> "°",
      U2019 |-> "±",
      U201C |-> "²",
      U201D |-> "³",
      U2026 |-> "´",
      U2020 |-> "µ",
      U2021 |-> "¶",
      U034F |-> "¸",
      U200B |-> "¹",
      U200C |-> "º",
      U200D |-> "»",
      U200E |-> "¼",
      U200F |-> "½",
      U2028 |-> "¾",
      U2029 |-> "¿",
      U202A |-> "¡",
      U202B |-> "¢",
      U202C |-> "£",
      U202D |-> "¥",
      U202E |-> "§",
      U202F |-> "¨",
      U2060 |-> "ª",
      UFEFF |-> "«",
      U180E |-> "×",
      UFFFD |-> "÷" ]
\* U+00AD, soft hyphen
SHY == "­"

HexChars == "0123456789abcdef"
HexDigit == CharsOf("0123456789abcdefABCDEF")

\* parseInt(h, 16) and parseInt(n, 10) on a run of digits
RECURSIVE ParseInt(_, _)
ParseInt(digits, radix) ==
    IF Len(digits) = 0 THEN 0
    ELSE ParseInt(SubSeq(digits, 1, Len(digits) - 1), radix) * radix
         + (IndexIn(LowerCh(Ch(digits, Len(digits))), HexChars) - 1)

\* the character of a code unit a text of the model can hold
CharOf(code) ==
    IF code = 9 THEN "\t"
    ELSE IF code = 10 THEN "\n"
    ELSE IF code = 13 THEN "\r"
    ELSE IF code \in 32..95 THEN Ch(AsciiLow, code - 31)
    ELSE IF code \in 97..126 THEN Ch(AsciiHigh, code - 96)
    ELSE IF code = 173 THEN SHY
    ELSE IF code = 847 THEN CodeUnit.U034F
    ELSE IF code = 8203 THEN CodeUnit.U200B
    ELSE IF code = 65279 THEN CodeUnit.UFEFF
    ELSE CodeUnit.UFFFD

\* String.fromCodePoint(code): a RangeError (Undefined) above U+10FFFF
FromCodePoint(code) == IF code > 1114111 THEN Undefined ELSE Some(CharOf(code))

\* Buffer.from(b64, 'base64'): the characters outside the alphabet are
\* skipped, '=' ends the data, every 4 characters give 3 bytes
Base64Chars == "ABCDEFGHIJKLMNOPQRSTUVWXYZabcdefghijklmnopqrstuvwxyz0123456789+/"

RECURSIVE Sextets(_, _)
Sextets(b64, i) ==
    IF i > Len(b64) \/ Ch(b64, i) = "=" THEN <<>>
    ELSE (IF Ch(b64, i) \in CharsOf(Base64Chars)
          THEN <<IndexIn(Ch(b64, i), Base64Chars) - 1>> ELSE <<>>)
         \o Sextets(b64, i + 1)

BytesOf(six) ==
    LET n == Len(six)
        at(k) == IF k <= n THEN six[k] ELSE 0
        total == (n \div 4) * 3 + (IF n % 4 = 2 THEN 1 ELSE IF n % 4 = 3 THEN 2 ELSE 0)
        group(g) == at(4 * g + 1) * 262144 + at(4 * g + 2) * 4096
                    + at(4 * g + 3) * 64 + at(4 * g + 4)
    IN  [j \in 1..total |->
            LET g == (j - 1) \div 3
                r == (j - 1) % 3
            IN  (group(g) \div (IF r = 0 THEN 65536 ELSE IF r = 1 THEN 256 ELSE 1)) % 256]

\* Buffer.toString('utf8') for bytes below 0x80; any other byte is taken as
\* an invalid sequence and gives U+FFFD
RECURSIVE Utf8(_, _)
Utf8(bytes, i) ==
    IF i > Len(bytes) THEN ""
    ELSE (IF bytes[i] < 128 THEN CharOf(bytes[i]) ELSE CodeUnit.UFFFD)
         \o Utf8(bytes, i + 1)

RECURSIVE ReplaceChar(_, _, _)
ReplaceChar(s, a, b) ==
    IF Len(s) = 0 THEN ""
    ELSE (IF Ch(s, 1) = a THEN b ELSE Ch(s, 1)) \o ReplaceChar(Tail(s), a, b)

RECURSIVE Repeat(_, _)
Repeat(c, n) == IF n <= 0 THEN "" ELSE c \o Repeat(c, n - 1)

decodeBase64Url(data) ==
    LET b64 == ReplaceChar(ReplaceChar(data, "-", "+"), "_", "/")
        pad == IF Len(b64) % 4 = 0 THEN "" ELSE Repeat("=", 4 - (Len(b64) % 4))
    IN  Utf8(BytesOf(Sextets(b64 \o pad, 1)), 1)

\* [\s\S]
AnyCh == NC({})
\* [^>]
NotGt == NC({">"})
\* [^{}]
NotBrace == NC({"{", "}"})
\* [\w\-]
WordDash == C(WordCh \cup {"-"})

\* the steps of a chain of replace calls
Sub(re, to) == [k |-> "replace", re |-> re, to |-> to]
\* .replace(/&name;/gi, to)
Named(name, to) == Sub(RegExp(L("&" \o name \o ";"), TRUE), to)

\* /[\w\-]+\s*:\s*[^;{}]+;/g
CssProperty ==
    RegExp(Cat(<<Plus(WordDash), WS0, L(":"), WS0, Plus(NC({";", "{", "}"})), L(";")>>),
           FALSE)
\* /<[^>]+>/g
Tag == RegExp(Cat(<<L("<"), Plus(NotGt), L(">")>>), FALSE)
\* /&#x([0-9a-fA-F]+);/g
HexEntity == RegExp(Cat(<<L("&#x"), Plus(C(HexDigit)), L(";")>>), FALSE)
\* /&#([0-9]+);/g
DecEntity == RegExp(Cat(<<L("&#"), Plus(D), L(";")>>), FALSE)
\* \{[^{}]*(?:\{[^{}]*\}[^{}]*)*\}
NestedBlock ==
    Cat(<<L("{"), Star(NotBrace),
          Star(Cat(<<L("{"), Star(NotBrace), L("}"), Star(NotBrace)>>)), L("}")>>)

\* /<\s*(script|style|noscript|head|svg)[^>]*>[\s\S]*?<\s*\/\s*\1\s*>/gi,
\* the back reference written out for each name
Element(name) ==
    Cat(<<L("<"), WS0, L(name), Star(NotGt), L(">"), Lazy(AnyCh, 0, Inf),
          L("<"), WS0, L("/"), WS0, L(name), WS0, L(">")>>)

\* /<\s*\/name\s*>/gi
ClosingTag(name) == RegExp(Cat(<<L("<"), WS0, L("/" \o name), WS0, L(">")>>), TRUE)

\* decodeHtmlEntities: the chain of replace calls
DecodeEntitiesSteps ==
    << [k |-> "hex", guarded |-> FALSE],
       [k |-> "dec", guarded |-> FALSE],
       Named("nbsp", " "), Named("amp", "&"), Named("lt", "<"), Named("gt", ">"),
       Named("quot", "\""), Named("apos", "'"),
       Sub(RegExp(Alt(<<L("&zwnj;"), L("&zwj;"), L("&lrm;"), L("&rlm;")>>), TRUE), "") >>

\* htmlToTextKeepingLinks: its statements in order
HtmlToTextSteps ==
    << Sub(RegExp(Cat(<<L("<!--"), Lazy(AnyCh, 0, Inf), L("-->")>>), FALSE), " "),
       Sub(RegExp(Alt(<<Element("script"), Element("style"), Element("noscript"),
                        Element("head"), Element("svg")>>), TRUE), " "),
       Sub(RegExp(Cat(<<L("/*"), Lazy(AnyCh, 0, Inf), L("*/")>>), FALSE), " "),
       Sub(RegExp(Cat(<<Opt(C({".", "#"})), Plus(WordDash), WS0, L("{"),
                        Star(NC({"}"})), L("}")>>), FALSE), " "),
       Sub(RegExp(Cat(<<L("@media"), Star(NC({"{"})), NestedBlock>>), TRUE), " "),
       Sub(RegExp(Cat(<<L("@"), Plus(WordDash), Star(NC({"{"})), NestedBlock>>), TRUE),
           " "),
       Sub(CssProperty, " "),
       Sub(RegExp(Cat(<<Plus(C(WordCh)), WS0, L("="), WS0, L("\"\""),
                        Star(NC({"\""})), L("\"\"")>>), FALSE), " "),
       Sub(RegExp(Cat(<<Alt(<<L("width"), L("height"), L("border"), L("style"),
                              L("class"), L("id"), L("align"), L("valign"),
                              L("bgcolor"), L("cellpadding"), L("cellspacing")>>),
                        WS0, L("="), WS0, Quote, Star(NC({"\"", "'"})), Quote>>),
                  TRUE), " "),
       [k |-> "anchor"],
       Sub(RegExp(Cat(<<L("<"), WS0, L("br"), WS0, Opt(L("/")), L(">")>>), TRUE), "\n"),
       Sub(ClosingTag("p"), "\n\n"),
       Sub(ClosingTag("div"), "\n"),
       Sub(ClosingTag("li"), "\n"),
       Sub(RegExp(Cat(<<L("<"), WS0, L("li"), WS0, L(">")>>), TRUE), CodeUnit.U2022 \o " "),
       Sub(Tag, " ") >>
    \o DecodeEntitiesSteps
    \o << [k |-> "lines", collapse |-> TRUE],
          Sub(RegExp(Rep(C({"\n"}), 3, Inf), FALSE), "\n\n"),
          [k |-> "trim"] >>

\* cleanText: the chain of calls
CleanTextSteps ==
    << Sub(RegExp(Cat(<<L("{"), Star(NC({"}"})), L("}")>>), FALSE), " "),
       Sub(CssProperty, " "),
       Sub(RegExp(Alt(<<L("&zwnj;"), L("&zwj;"), L("&lrm;"), L("&rlm;"),
                        L("&zerowidthspace;")>>), TRUE), ""),
       Named("shy", ""),
       Sub(RegExp(C({CodeUnit.U034F, CodeUnit.U200B, CodeUnit.U200C, CodeUnit.U200D,
                     CodeUnit.U200E, CodeUnit.U200F, CodeUnit.U2028, CodeUnit.U2029,
                     CodeUnit.U202A, CodeUnit.U202B, CodeUnit.U202C, CodeUnit.U202D,
                     CodeUnit.U202E, CodeUnit.U202F, CodeUnit.U2060, CodeUnit.UFEFF,
                     SHY, CodeUnit.U180E}),
                  FALSE), ""),
       Sub(Tag, " "),
       Named("nbsp", " "), Named("amp", "&"), Named("lt", "<"), Named("gt", ">"),
       Named("quot", "\""), Named("apos", "'"),
       Named("reg", "®"), Named("copy", "©"), Named("trade", CodeUnit.U2122),
       Named("bull", CodeUnit.U2022), Named("middot", "·"), Named("ndash", CodeUnit.U2013),
       Named("mdash", CodeUnit.U2014), Named("lsquo", CodeUnit.U2018), Named("rsquo", CodeUnit.U2019),
       Named("ldquo", CodeUnit.U201C), Named("rdquo", CodeUnit.U201D), Named("hellip", CodeUnit.U2026),
       Named("dagger", CodeUnit.U2020), Named("dagger", CodeUnit.U2021),
       Named("aacute", "á"), Named("eacute", "é"), Named("iacute", "í"),
       Named("oacute", "ó"), Named("uacute", "ú"), Named("ntilde", "ñ"),
       Named("aacute", "Á"), Named("eacute", "É"), Named("iacute", "Í"),
       Named("oacute", "Ó"), Named("uacute", "Ú"), Named("ntilde", "Ñ"),
       Sub(RegExp(Alt(<<L("&#8203;"), L("&#x200b;"), L("&#847;"), L("&#x34f;"),
                        L("&#65279;"), L("&#xfeff;"), L("&#173;"), L("&#xad;")>>),
                  TRUE), ""),
       [k |-> "hex", guarded |-> TRUE],
       [k |-> "dec", guarded |-> TRUE],
       [k |-> "entity"],
       Sub(RegExp(Plus(C({" ", "\t"})), FALSE), " "),
       Sub(RegExp(Rep(C({"\n"}), 3, Inf), FALSE), "\n\n"),
       [k |-> "lines", collapse |-> FALSE],
       [k |-> "trim"] >>

\* the text of a match
Matched(s, m) == SubSeq(s, m.from, m.to - 1)

\* String.prototype.replace with a global regular expression and a function:
\* reps[j] replaces the j-th match
RECURSIVE ReplaceEach(_, _, _, _)
ReplaceEach(s, spans, reps, p) ==
    IF Len(spans) = 0 THEN SubSeq(s, p, Len(s))
    ELSE SubSeq(s, p, Head(spans).from - 1) \o Head(reps)
         \o ReplaceEach(s, Tail(spans), Tail(reps), Head(spans).to)

FirstIndexOf(s, c) == CHOOSE i \in 1..Len(s) : Ch(s, i) = c /\ \A j \in 1..(i - 1) : Ch(s, j) # c

\* String.prototype.split and Array.prototype.join
RECURSIVE Split(_, _)
Split(s, sep) ==
    IF \A i \in 1..Len(s) : Ch(s, i) # sep THEN <<s>>
    ELSE <<SubSeq(s, 1, FirstIndexOf(s, sep) - 1)>>
         \o Split(SubSeq(s, FirstIndexOf(s, sep) + 1, Len(s)), sep)

RECURSIVE JoinWith(_, _)
JoinWith(xs, sep) ==
    IF Len(xs) = 0 THEN ""
    ELSE IF Len(xs) = 1 THEN xs[1]
    ELSE xs[1] \o sep \o JoinWith(Tail(xs), sep)

\* /\s+/g
WhiteRun == RegExp(Plus(C(Space)), FALSE)

\* the code points cleanText decodes to nothing
Skipped(code) ==
    \/ code < 32
    \/ code >= 8203 /\ code <= 8207
    \/ code = 847
    \/ code = 65279
    \/ code = 173

\* the callback of a numeric entity on the digits of a match: the text it
\* returns, or Undefined when String.fromCodePoint throws
EntityText(digits, radix, guarded) ==
    IF guarded /\ Skipped(ParseInt(digits, radix)) THEN Some("")
    ELSE FromCodePoint(ParseInt(digits, radix))

\* the href of the attributes of an anchor
HrefQuoted(q) ==
    RegExp(Cat(<<WB, L("href"), WS0, L("="), WS0, L(q), Plus(NC({q})), L(q)>>), TRUE)
HrefBare ==
    RegExp(Cat(<<WB, L("href"), WS0, L("="), WS0, Plus(NC(Space \cup {">"}))>>), TRUE)

Href(a) ==
    LET dq == MatchAll(HrefQuoted("\""), a)
        sq == MatchAll(HrefQuoted("'"), a)
        bare == MatchAll(HrefBare, a)
        quoted(m, q) == SubSeq(m, FirstIndexOf(m, q) + 1, Len(m) - 1)
        after(m) == LET e == FirstIndexOf(m, "=")
                        v == CHOOSE i \in (e + 1)..Len(m) :
                                 /\ Ch(m, i) \notin Space
                                 /\ \A j \in (e + 1)..(i - 1) : Ch(m, j) \in Space
                    IN  SubSeq(m, v, Len(m))
    IN  IF Len(dq) > 0 THEN quoted(Matched(a, dq[1]), "\"")
        ELSE IF Len(sq) > 0 THEN quoted(Matched(a, sq[1]), "'")
        ELSE IF Len(bare) > 0 THEN after(Matched(a, bare[1]))
        ELSE ""

\* /<a\b([^>]*?)>([\s\S]*?)<\/a>/gi
Anchor ==
    RegExp(Cat(<<L("<a"), WB, Lazy(NotGt, 0, Inf), L(">"), Lazy(AnyCh, 0, Inf),
                 L("</a>")>>), TRUE)

String_includes(s, sub) ==
    \E i \in 1..(Len(s) - Len(sub) + 1) : SubSeq(s, i, i + Len(sub) - 1) = sub

\* the callback of the anchor rewrite on the text of a match
AnchorText(m) ==
    LET attrs == SubSeq(m, 3, FirstIndexOf(m, ">") - 1)
        inner == SubSeq(m, FirstIndexOf(m, ">") + 1, Len(m) - 4)
        href == Href(attrs)
        innerText == Trim(Replace(Replace(inner, Tag, " "), WhiteRun, " "))
    IN  IF href = "" THEN (IF innerText # "" THEN innerText ELSE "link")
        ELSE IF innerText = "" THEN href
        ELSE IF String_includes(innerText, href) THEN innerText
        ELSE innerText \o " (" \o href \o ")"

\* /&[a-z]{2,10};/gi
AnyEntity == RegExp(Cat(<<L("&"), Rep(C(Lower), 2, 10), L(";")>>), TRUE)

MapSeq(xs, F(_)) == [j \in 1..Len(xs) |-> F(xs[j])]

\* one step of a chain on the text s: the new text, or Undefined when the
\* step throws
ApplyStep(st, s) ==
    CASE st.k = "replace" -> Some(Replace(s, st.re, st.to))
      [] st.k = "hex" ->
            LET spans == MatchAll(HexEntity, s)
                decoded(m) == EntityText(SubSeq(Matched(s, m), 4, m.to - m.from - 1), 16,
                                      st.guarded)
            IN  IF \E j \in 1..Len(spans) : decoded(spans[j]) = Undefined THEN Undefined
                ELSE Some(ReplaceEach(s, spans, MapSeq(spans, LAMBDA m : decoded(m)[1]), 1))
      [] st.k = "dec" ->
            LET spans == MatchAll(DecEntity, s)
                decoded(m) == EntityText(SubSeq(Matched(s, m), 3, m.to - m.from - 1), 10,
                                      st.guarded)
            IN  IF \E j \in 1..Len(spans) : decoded(spans[j]) = Undefined THEN Undefined
                ELSE Some(ReplaceEach(s, spans, MapSeq(spans, LAMBDA m : decoded(m)[1]), 1))
      [] st.k = "entity" ->
            LET spans == MatchAll(AnyEntity, s)
                keep(m) == IF toLowerCase(Matched(s, m)) \in {"&amp;", "&lt;", "&gt;"}
                           THEN Matched(s, m) ELSE " "
            IN  Some(ReplaceEach(s, spans, MapSeq(spans, keep), 1))
      [] st.k = "anchor" ->
            LET spans == MatchAll(Anchor, s)
            IN  Some(ReplaceEach(s, spans,
                                 MapSeq(spans, LAMBDA m : AnchorText(Matched(s, m))), 1))
      [] st.k = "lines" ->
            Some(JoinWith(MapSeq(Split(s, "\n"),
                                 LAMBDA line : IF st.collapse
                                               THEN Trim(Replace(line, WhiteRun, " "))
                                               ELSE Trim(line)),
                          "\n"))
      [] st.k = "trim" -> Some(Trim(s))

\* a whole chain from step k on: the text returned, or Undefined when a
\* step throws
RECURSIVE RunSteps(_, _, _)
\* the chain after step k returned r: a step that throws ends the chain
RunAfter(steps, k, r) ==
    IF r = Undefined THEN Undefined ELSE RunSteps(steps, k + 1, r[1])

RunSteps(steps, k, s) ==
    IF k > Len(steps) THEN Some(s) ELSE RunAfter(steps, k, ApplyStep(steps[k], s))

cleanText(s) == RunSteps(CleanTextSteps, 1, s)

htmlToTextKeepingLinks(html) == RunSteps(HtmlToTextSteps, 1, html)

\* The parts of a payload as the body extraction reads them: parts that are
\* not attachments with each kind of mimeType and data (base64url), and
\* text/plain parts with a filename, an attachmentId or no body.
Encoded ==
    { "SGk",                      \* Hi
      "IA",                       \* one space
      "S*Gk",                     \* Hi, with a character outside the alphabet
      "JiN4MTEwMDAwOw",           \* &#x110000;
      "YTogJiN4MTEwMDAwOw" }      \* a: &#x110000;
EncodedHtml ==
    { "PHA-SGkgJiM2NTs8L3A-",     \* <p>Hi &#65;</p>
      "JiN4MTEwMDAwOw",           \* &#x110000;
      "PGEgaHJlZj0idSI-dDwvYT4",  \* <a href="u">t</a>
      "YSYjeDIwMEI7YiYjOTtj" }    \* a&#x200B;b&#9;c

InlineBody(data) == Some([attachmentId |-> Undefined, size |-> Undefined, data |-> data])

BodyPartFields ==
    [filename : {Undefined}, mimeType : {Some("text/plain")},
     body : {Undefined} \cup { InlineBody(d) : d \in {Undefined, Some("")} }
            \cup { InlineBody(Some(d)) : d \in Encoded }]
    \cup
    [filename : {Undefined}, mimeType : {Some("TEXT/HTML")},
     body : { InlineBody(Some(d)) : d \in EncodedHtml }]
    \cup
    [filename : {Undefined}, mimeType : {Undefined, Some("multipart/mixed")},
     body : {InlineBody(Some("SGk"))}]
    \cup
    [filename : {Some(" "), Some("a.txt")}, mimeType : {Some("text/plain")},
     body : {InlineBody(Some("SGk"))}]
    \cup
    [filename : {Undefined, Some("a.txt")}, mimeType : {Some("text/plain")},
     body : {Some([attachmentId |-> Some("ANGjdJ8"), size |-> Some(1024),
                   data |-> Some("SGk")])}]

MaxCharsValues == {0, 4}

\* out.slice(0, maxChars) without the test of maxChars
TruncatedAlways(s, max) ==
    IF max = 0 THEN "" ELSE IF Len(s) > max THEN SubSeq(s, 1, max) ELSE s

\* out.slice(0, maxChars) under if (maxChars > 0 && out.length > maxChars)
Truncated(s, max) == IF max > 0 /\ Len(s) > max THEN SubSeq(s, 1, max) ELSE s

\* extractBodyText(payload, maxChars) up to walk(payload)
ExtractBodyText ==
    /\ bpc = "idle"
    /\ fn' = "extractBodyText"
    /\ \E max \in MaxCharsValues : maxChars' = max
    /\ \E payload \in BOOLEAN :
          /\ bstack' = IF payload THEN <<0>> ELSE <<>>
          /\ bdeclared' = IF payload THEN 1 ELSE 0
    /\ bvisited' = 0
    /\ bpart' = Undefined
    /\ bpc' = "walk"
    /\ plainParts' = <<>>
    /\ htmlParts' = <<>>
    /\ UNCHANGED <<out, step, bret>>
    /\ UNCHANGED <<sanVars, attVars, addrVars, appVars>>

\* extractBodyHtml(payload, maxChars) up to walk(payload)
ExtractBodyHtml ==
    /\ bpc = "idle"
    /\ fn' = "extractBodyHtml"
    /\ \E max \in MaxCharsValues : maxChars' = max
    /\ \E payload \in BOOLEAN :
          /\ bstack' = IF payload THEN <<0>> ELSE <<>>
          /\ bdeclared' = IF payload THEN 1 ELSE 0
    /\ bvisited' = 0
    /\ bpart' = Undefined
    /\ bpc' = "walk"
    /\ htmlParts' = <<>>
    /\ UNCHANGED <<plainParts, out, step, bret>>
    /\ UNCHANGED <<sanVars, attVars, addrVars, appVars>>

\* one call of walk, of extractBodyText or of extractBodyHtml, on a part
WalkBody ==
    /\ bpc = "walk"
    /\ Len(bstack) > 0
    /\ \E fields \in BodyPartFields :
       \E parts \in PartsLengths(Head(bstack), MaxBodyParts - bdeclared) :
       \E filename \in {Trim(OrElse(fields.filename, ""))} :
       \E isAttachment \in {Len(filename) > 0 \/
                            (fields.body # Undefined /\
                             Truthy(fields.body[1].attachmentId))} :
       \E mimeType \in {toLowerCase(OrElse(fields.mimeType, ""))} :
       \E data \in {IF fields.body = Undefined THEN ""
                    ELSE OrElse(fields.body[1].data, "")} :
          /\ plainParts' =
                IF fn = "extractBodyText" /\ ~isAttachment /\ data # ""
                   /\ mimeType = "text/plain"
                THEN Append(plainParts, decodeBase64Url(data)) ELSE plainParts
          /\ htmlParts' =
                IF ~isAttachment /\ data # "" /\ mimeType = "text/html"
                THEN Append(htmlParts, decodeBase64Url(data)) ELSE htmlParts
          /\ bdeclared' = bdeclared + OrElse(parts, 0)
          /\ bvisited' = bvisited + 1
          /\ bpart' = Some(fields)
          /\ bstack' = [k \in 1..OrElse(parts, 0) |-> Head(bstack) + 1] \o Tail(bstack)
    /\ UNCHANGED <<bpc, fn, maxChars, out, step, bret>>
    /\ UNCHANGED <<sanVars, attVars, addrVars, appVars>>

\* extractBodyText after walk, with the html parts before the plain parts
JoinPartsHtmlFirst ==
    /\ bpc = "walk"
    /\ fn = "extractBodyText"
    /\ Len(bstack) = 0
    /\ \E plain \in {Trim(JoinWith(plainParts, "\n"))} :
       \E html \in {Trim(JoinWith(htmlParts, "\n"))} :
          IF html # ""
          THEN bpc' = "html" /\ out' = html
          ELSE bpc' = "clean" /\ out' = plain
    /\ step' = 1
    /\ bpart' = Undefined
    /\ UNCHANGED <<fn, maxChars, bstack, bdeclared, bvisited, plainParts, htmlParts, bret>>
    /\ UNCHANGED <<sanVars, attVars, addrVars, appVars>>

\* extractBodyText after walk: the plain parts, or else the html parts on
\* their way into htmlToTextKeepingLinks, then cleanText
JoinParts ==
    /\ bpc = "walk"
    /\ fn = "extractBodyText"
    /\ Len(bstack) = 0
    /\ \E plain \in {Trim(JoinWith(plainParts, "\n"))} :
       \E html \in {Trim(JoinWith(htmlParts, "\n"))} :
          IF plain = "" /\ html # ""
          THEN bpc' = "html" /\ out' = html
          ELSE bpc' = "clean" /\ out' = plain
    /\ step' = 1
    /\ bpart' = Undefined
    /\ UNCHANGED <<fn, maxChars, bstack, bdeclared, bvisited, plainParts, htmlParts, bret>>
    /\ UNCHANGED <<sanVars, attVars, addrVars, appVars>>

\* one statement of htmlToTextKeepingLinks; after the last one, return
HtmlToTextStep ==
    /\ bpc = "html"
    /\ \E r \in {ApplyStep(HtmlToTextSteps[step], out)} :
          IF r = Undefined
          THEN bpc' = "threw" /\ UNCHANGED <<out, step>>
          ELSE /\ out' = r[1]
               /\ IF step < Len(HtmlToTextSteps)
                  THEN bpc' = bpc /\ step' = step + 1
                  ELSE bpc' = "clean" /\ step' = 1
    /\ UNCHANGED <<fn, maxChars, bstack, bdeclared, bvisited, bpart, plainParts,
                   htmlParts, bret>>
    /\ UNCHANGED <<sanVars, attVars, addrVars, appVars>>

\* one call of the chain of cleanText
CleanTextStep ==
    /\ bpc = "clean"
    /\ step <= Len(CleanTextSteps)
    /\ \E r \in {ApplyStep(CleanTextSteps[step], out)} :
          IF r = Undefined
          THEN bpc' = "threw" /\ UNCHANGED <<out, step>>
          ELSE out' = r[1] /\ step' = step + 1 /\ bpc' = bpc
    /\ UNCHANGED <<fn, maxChars, bstack, bdeclared, bvisited, bpart, plainParts,
                   htmlParts, bret>>
    /\ UNCHANGED <<sanVars, attVars, addrVars, appVars>>

\* extractBodyText after cleanText: the cut to maxChars and the return
ReturnBodyText ==
    /\ bpc = "clean"
    /\ step > Len(CleanTextSteps)
    /\ out' = Truncated(out, maxChars)
    /\ bret' = out'
    /\ bpc' = "done"
    /\ UNCHANGED <<fn, maxChars, bstack, bdeclared, bvisited, bpart, plainParts,
                   htmlParts, step>>
    /\ UNCHANGED <<sanVars, attVars, addrVars, appVars>>

\* extractBodyHtml after walk
ReturnBodyHtml ==
    /\ bpc = "walk"
    /\ fn = "extractBodyHtml"
    /\ Len(bstack) = 0
    /\ out' = Truncated(Trim(JoinWith(htmlParts, "\n")), maxChars)
    /\ bret' = out'
    /\ bpc' = "done"
    /\ bpart' = Undefined
    /\ UNCHANGED <<fn, maxChars, bstack, bdeclared, bvisited, plainParts, htmlParts, step>>
    /\ UNCHANGED <<sanVars, attVars, addrVars, appVars>>

NextBody ==
    \/ ExtractBodyText \/ ExtractBodyHtml \/ WalkBody \/ JoinParts
    \/ HtmlToTextStep \/ CleanTextStep \/ ReturnBodyText \/ ReturnBodyHtml

SpecBody == Init /\ [][NextBody]_vars

\* C8: no core operation throws: for every payload, body content included,
\* extractBodyText and extractBodyHtml return a value.
C8_NoOperationThrows == bpc # "threw"

\* C11: the result of collectAttachmentTypes has types without duplicates
\* and sorted ascending (each element below the next in code unit order),
\* hasAttachment true if and only if count > 0, and at most count types.
C11_TypesSortedUniqueAndCounted ==
    apc = "done" =>
        /\ \A i \in 1..Len(aret.types) - 1 :
              /\ aret.types[i] # aret.types[i + 1]
              /\ StrLess(aret.types[i], aret.types[i + 1])
        /\ aret.hasAttachment <=> aret.count > 0
        /\ Len(aret.types) <= aret.count

\* three attachments, two of them of one type
C11_Witness ==
    /\ apc = "done"
    /\ aret.hasAttachment
    /\ aret.count = 3
    /\ Len(aret.types) = 2

\* the statement's condition for a part to contribute to the segments of
\* mime type mime: it is not an attachment under the attachment rule, its
\* mimeType is mime and its body.data is not empty
ClaimedSegment(p, mime) ==
    /\ ~ClaimedAttachment(p)
    /\ toLowerCase(OrElse(p.mimeType, "")) = mime
    /\ p.body # Undefined
    /\ OrElse(p.body[1].data, "") # ""

\* C12: in body extraction a part contributes a segment to the plain-text
\* (resp. HTML) list if and only if it is not an attachment under the
\* attachment rule (non-empty filename and (attachmentId or size > 0)), its
\* mimeType is text/plain (resp. text/html) and its body.data is not empty;
\* a contribution is appended, and every part of the tree is walked.
C12_SegmentsOfNonAttachmentParts ==
    /\ [][bvisited' = bvisited + 1 =>
             /\ fn = "extractBodyText" =>
                   Len(plainParts') = Len(plainParts) +
                       (IF ClaimedSegment(bpart'[1], "text/plain") THEN 1 ELSE 0)
             /\ Len(htmlParts') = Len(htmlParts) +
                       (IF ClaimedSegment(bpart'[1], "text/html") THEN 1 ELSE 0)]_vars
    /\ [](bpc = "done" => bvisited = bdeclared)

\* the plain-text segments joined with a newline, trimmed
JoinedPlain == Trim(JoinWith(plainParts, "\n"))

\* the result of extractBodyText when the body is the text s, not converted
BodyOf(s) == Truncated(cleanText(s)[1], maxChars)

JoinedHtml == Trim(JoinWith(htmlParts, "\n"))

\* the fully normalized body of extractBodyText for the segments collected
NormalizedBody ==
    IF JoinedPlain # "" THEN cleanText(JoinedPlain)[1]
    ELSE IF JoinedHtml # "" THEN cleanText(htmlToTextKeepingLinks(JoinedHtml)[1])[1]
    ELSE cleanText("")[1]

\* C14: with N the fully normalized body, extractBodyText returns exactly
\* the first maxChars code units of N when maxChars > 0 and N is longer than
\* maxChars, and N otherwise; the cut is the last step, after all decoding
\* and normalization.
C14_TruncationIsLast ==
    (bpc = "done" /\ fn = "extractBodyText") =>
        IF maxChars > 0 /\ Len(NormalizedBody) > maxChars
        THEN bret = SubSeq(NormalizedBody, 1, maxChars) /\ Len(bret) = maxChars
        ELSE bret = NormalizedBody

\* a body of five code units cut to four
C14_Witness ==
    /\ bpc = "done"
    /\ fn = "extractBodyText"
    /\ maxChars = 4
    /\ NormalizedBody = "t (u)"
    /\ bret = "t (u"

\* the named entities of the code points the statement lists
InvisibleNamed ==
    RegExp(Alt(<<L("&zwnj;"), L("&zwj;"), L("&lrm;"), L("&rlm;"), L("&shy;")>>), TRUE)

\* s without its numeric entities in re (digits from the d-th character of
\* the match, in base radix) whose code point the statement lists
WithoutSkipped(s, re, d, radix) ==
    LET spans == MatchAll(re, s)
        kept(m) == IF Skipped(ParseInt(SubSeq(Matched(s, m), d, m.to - m.from - 1), radix))
                   THEN "" ELSE Matched(s, m)
    IN  ReplaceEach(s, spans, MapSeq(spans, kept), 1)

\* s where every entity of a control or invisible code point is the empty
\* string
WithoutInvisibleEntities(s) ==
    Replace(WithoutSkipped(WithoutSkipped(s, HexEntity, 4, 16), DecEntity, 3, 10),
            InvisibleNamed, "")

\* C15: in HTML-to-text conversion every numeric or named entity of a
\* control character (< 0x20), of U+200B..U+200F, U+034F, U+FEFF or U+00AD
\* contributes the empty string: the body is the body of the same HTML
\* without these entities.
C15_InvisibleEntitiesDecodeToEmpty ==
    (bpc = "done" /\ fn = "extractBodyText" /\ JoinedPlain = "" /\ JoinedHtml # "") =>
        bret = BodyOf(htmlToTextKeepingLinks(WithoutInvisibleEntities(JoinedHtml))[1])

\* ------------------------------------------------------------------------
\* The normalisation of extractBodyText on its own: the state after the walk
\* and the choice of the body, for bodies drawn from the sets below
\* ------------------------------------------------------------------------
AnchorHrefs == {Undefined, Some("u"), Some("http://x.y/a;b")}
AnchorInners == {"", "t", "See u"}

\* <a href="H">I</a>, or <a>I</a> without an href
AnchorHtml(href, inner) ==
    "<a" \o (IF href = Undefined THEN "" ELSE " href=\"" \o href[1] \o "\"") \o ">"
         \o inner \o "</a>"

HtmlInputs ==
    { AnchorHtml(h, i) : h \in AnchorHrefs, i \in AnchorInners }
    \cup { "<p> a  b </p>\n\n\n<p>c</p>", "a<br> <br> <br>b", "<li>x</li><li>y</li>" }

PlainInputs == { "Hi", " x  y\n\n\n\nz ", "a\n \n \nb", "a \t b\n c " }

NormalizeInit ==
    /\ SanInit
    /\ AttInit
    /\ AddrInit
    /\ AppInit
    /\ bpc \in {"html", "clean"}
    /\ out \in (IF bpc = "html" THEN HtmlInputs ELSE PlainInputs)
    /\ htmlParts = (IF bpc = "html" THEN <<out>> ELSE <<>>)
    /\ plainParts = (IF bpc = "html" THEN <<>> ELSE <<out>>)
    /\ fn = "extractBodyText"
    /\ maxChars \in MaxCharsValues
    /\ bstack = <<>>
    /\ bdeclared = 1
    /\ bvisited = 1
    /\ bpart = Undefined
    /\ step = 1
    /\ bret = ""

NextNormalize == HtmlToTextStep \/ CleanTextStep \/ ReturnBodyText

SpecNormalize == NormalizeInit /\ [][NextNormalize]_vars

\* the rule of the statement for the anchor of href H and inner text I
Rewritten(href, inner) ==
    IF href = Undefined THEN (IF inner = "" THEN "link" ELSE inner)
    ELSE IF inner = "" THEN href[1]
    ELSE IF \E k \in 1..Len(inner) - Len(href[1]) + 1 :
                SubSeq(inner, k, k + Len(href[1]) - 1) = href[1] THEN inner
    ELSE inner \o " (" \o href[1] \o ")"

\* htmlToTextKeepingLinks has returned
HtmlConverted == bpc = "clean" /\ step = 1 /\ Len(htmlParts) > 0

\* C16: htmlToTextKeepingLinks rewrites every anchor <a href="H">I</a>, for
\* every href H and inner text I: I, or "link" when I is empty, if H is
\* absent; H if I is empty; I alone if I contains H; otherwise "I (H)" with
\* H in full.
C16_AnchorsRewritten ==
    \A h \in AnchorHrefs : \A i \in AnchorInners :
        (HtmlConverted /\ htmlParts = <<AnchorHtml(h, i)>>) => out = Rewritten(h, i)

\* a line of the text
LinesOf(s) == { Split(s, "\n")[k] : k \in 1..Len(Split(s, "\n")) }

\* s has k consecutive characters of the set cs
HasRun(s, cs, k) ==
    \E p \in 1..Len(s) - k + 1 : \A q \in p..(p + k - 1) : Ch(s, q) \in cs

\* cleanText has returned: out is the normalized body, before truncation
Normalized == bpc = "clean" /\ step > Len(CleanTextSteps)

\* C17: the normalized body of extractBodyText, before truncation, has no
\* line with leading or trailing whitespace, no line with a run of two or
\* more whitespace characters, never three or more consecutive newlines,
\* and no leading or trailing whitespace as a whole.
C17_WhitespaceNormalForm ==
    Normalized =>
        /\ \A line \in LinesOf(out) : line = Trim(line) /\ ~HasRun(line, Space, 2)
        /\ ~HasRun(out, {"\n"}, 3)
        /\ out = Trim(out)

\* ------------------------------------------------------------------------
\* parseEmail (src/parser.ts)
\* ------------------------------------------------------------------------
LineTerminators == {"\n", "\r", CodeUnit.U2028, CodeUnit.U2029}

\* s.match(/^(.*)<([^>]+)>$/): the groups m[1] and m[2], or Undefined.  The
\* greedy (.*) takes the last "<" after which no ">" comes before the final
\* one; "." matches no line terminator.
BracketMatch(s) ==
    LET n == Len(s)
        opens == { q \in 1..(n - 2) :
                      /\ Ch(s, q) = "<"
                      /\ \A k \in (q + 1)..(n - 1) : Ch(s, k) # ">"
                      /\ \A k \in 1..(q - 1) : Ch(s, k) \notin LineTerminators }
    IN  IF n < 3 \/ Ch(s, n) # ">" \/ opens = {} THEN Undefined
        ELSE LET q == CHOOSE q \in opens : \A q2 \in opens : q2 <= q
             IN  Some(<<SubSeq(s, 1, q - 1), SubSeq(s, q + 1, n - 1)>>)

\* /[A-Z0-9._%+-]+@[A-Z0-9.-]+\.[A-Z]{2,}/i
EmailRegex ==
    RegExp(Cat(<<Plus(C(Lower \cup Digit \cup {".", "_", "%", "+", "-"})), L("@"),
                 Plus(C(Lower \cup Digit \cup {".", "-"})), L("."),
                 Rep(C(Lower), 2, Inf)>>), TRUE)

\* String.prototype.replace with a string pattern: the first occurrence
ReplaceFirst(s, sub, repl) ==
    LET at == { k \in 1..(Len(s) - Len(sub) + 1) : SubSeq(s, k, k + Len(sub) - 1) = sub }
    IN  IF at = {} THEN s
        ELSE LET k == CHOOSE k \in at : \A k2 \in at : k <= k2
             IN  SubSeq(s, 1, k - 1) \o repl \o SubSeq(s, k + Len(sub), Len(s))

\* .replace(/[cs]/g, '')
RECURSIVE RemoveChars(_, _)
RemoveChars(s, cs) ==
    IF Len(s) = 0 THEN ""
    ELSE (IF Ch(s, 1) \in cs THEN "" ELSE Ch(s, 1)) \o RemoveChars(Tail(s), cs)

\* s.match(/[A-Z0-9._%+-]+@[A-Z0-9.-]+\.[A-Z]{2,}/i)?.[0]?.toLowerCase() ?? ''
FirstEmail(s) ==
    LET ms == MatchAll(EmailRegex, s)
    IN  IF Len(ms) = 0 THEN "" ELSE toLowerCase(Matched(s, ms[1]))

parseEmail(r) ==
    LET s == Trim(OrElse(r, ""))
        m == BracketMatch(s)
    IN  IF m # Undefined /\ m[1][1] # "" /\ m[1][2] # ""
        THEN [name |-> Trim(RemoveChars(m[1][1], {"\""})),
              email |-> toLowerCase(Trim(m[1][2]))]
        ELSE LET email == FirstEmail(s)
             IN  [name |-> IF email # ""
                           THEN Trim(RemoveChars(ReplaceFirst(s, email, ""),
                                                 {"<", ">", "\""}))
                           ELSE "",
                  email |-> email]

DisplayNames == {"", "John Doe", "\"John Doe\"", "John \"JD\" Doe", "Doe, John", "J"}
Addresses == {"John@Example.COM", "j@x.co", "abc", "a@b", "x.y+z@mail.example.org"}

RawValues ==
    {Undefined}
    \cup { Some(" " \o n \o " ") : n \in DisplayNames }
    \cup { Some(IF n = "" THEN "<" \o a \o ">" ELSE n \o " <" \o a \o ">") :
              n \in DisplayNames, a \in Addresses }
    \cup { Some(n \o " <" \o a \o "> ") : n \in DisplayNames, a \in Addresses }
    \cup { Some(n \o " " \o a) : n \in DisplayNames, a \in Addresses }
    \cup { Some(a \o " " \o n) : n \in DisplayNames, a \in Addresses }

\* parseEmail(raw)
ParseEmail ==
    /\ epc = "idle"
    /\ \E r \in RawValues :
          /\ raw' = r
          /\ eret' = parseEmail(r)
    /\ epc' = "done"
    /\ UNCHANGED <<sanVars, attVars, bodyVars, appVars>>

\* the caller goes on to the next header value
NextHeader ==
    /\ epc = "done"
    /\ epc' = "idle"
    /\ raw' = Undefined
    /\ eret' = [name |-> "", email |-> ""]
    /\ UNCHANGED <<sanVars, attVars, bodyVars, appVars>>

NextAddr == ParseEmail \/ NextHeader

SpecAddr == Init /\ [][NextAddr]_vars

\* the trimmed value parseEmail was called on
Value == Trim(OrElse(raw, ""))

\* the value ends with an angle-bracketed address
EndsWithBracket == BracketMatch(Value) # Undefined

\* the value contains an email-like substring, in any letter case
HasEmailLike == Len(MatchAll(EmailRegex, Value)) > 0

\* s without the quote it starts with and the quote it ends with
Unquoted(s) ==
    LET a == IF Len(s) > 0 /\ Ch(s, 1) = "\"" THEN 2 ELSE 1
        b == IF Len(s) > 1 /\ Ch(s, Len(s)) = "\"" THEN Len(s) - 1 ELSE Len(s)
    IN  SubSeq(s, a, b)

\* C18: parseEmail on a value that ends with an angle-bracketed address,
\* whatever precedes the bracket (nothing included), returns the bracket
\* contents trimmed and lowercased as email, and the prefix with its
\* surrounding quotes stripped, trimmed, as name.
C18_BracketedAddress ==
    (epc = "done" /\ EndsWithBracket) =>
        /\ eret.email = toLowerCase(Trim(BracketMatch(Value)[1][2]))
        /\ eret.name = Trim(Unquoted(Trim(BracketMatch(Value)[1][1])))

\* the first email-like substring of the value, as [from, to) positions
FirstEmailSpan == MatchAll(EmailRegex, Value)[1]

\* C19: parseEmail on a value without a trailing angle-bracketed address
\* that contains an email-like substring returns the first such substring
\* lowercased as email, and as name the value with that substring and every
\* angle bracket and quote removed, trimmed; the name does not contain the
\* matched address.
C19_BareAddress ==
    (epc = "done" /\ ~EndsWithBracket /\ HasEmailLike) =>
        /\ eret.email = toLowerCase(Matched(Value, FirstEmailSpan))
        /\ eret.name = Trim(RemoveChars(SubSeq(Value, 1, FirstEmailSpan.from - 1)
                                        \o SubSeq(Value, FirstEmailSpan.to, Len(Value)),
                                        {"<", ">", "\""}))
        /\ ~String_includes(eret.name, Matched(Value, FirstEmailSpan))

\* C20: parseEmail on a value with no email-like substring returns an empty
\* email and the trimmed value as name.
C20_NoAddress ==
    (epc = "done" /\ ~HasEmailLike) =>
        /\ eret.email = ""
        /\ eret.name = Value

\* ------------------------------------------------------------------------
\* src/address-detector.ts and the physical_addresses entry of PATTERNS
\* ------------------------------------------------------------------------
US_STATES ==
    << "AL", "AK", "AZ", "AR", "CA", "CO", "CT", "DE", "FL", "GA", "HI", "ID", "IL",
       "IN", "IA", "KS", "KY", "LA", "ME", "MD", "MA", "MI", "MN", "MS", "MO", "MT",
       "NE", "NV", "NH", "NJ", "NM", "NY", "NC", "ND", "OH", "OK", "OR", "PA", "RI",
       "SC", "SD", "TN", "TX", "UT", "VT", "VA", "WA", "WV", "WI", "WY", "DC",
       "Alabama", "Alaska", "Arizona", "Arkansas", "California", "Colorado",
       "Connecticut", "Delaware", "Florida", "Georgia", "Hawaii", "Idaho", "Illinois",
       "Indiana", "Iowa", "Kansas", "Kentucky", "Louisiana", "Maine", "Maryland",
       "Massachusetts", "Michigan", "Minnesota", "Mississippi", "Missouri", "Montana",
       "Nebraska", "Nevada", "New Hampshire", "New Jersey", "New Mexico", "New York",
       "North Carolina", "North Dakota", "Ohio", "Oklahoma", "Oregon", "Pennsylvania",
       "Rhode Island", "South Carolina", "South Dakota", "Tennessee", "Texas", "Utah",
       "Vermont", "Virginia", "Washington", "West Virginia", "Wisconsin", "Wyoming" >>

MAJOR_CITIES ==
    << "New York", "Los Angeles", "Chicago", "Houston", "Phoenix", "Philadelphia",
       "San Antonio", "San Diego", "Dallas", "San Jose", "Austin", "Jacksonville",
       "Fort Worth", "Columbus", "Charlotte", "San Francisco", "Indianapolis",
       "Seattle", "Denver", "Boston", "El Paso", "Nashville", "Detroit", "Portland",
       "Memphis", "Oklahoma City", "Las Vegas", "Louisville", "Baltimore", "Milwaukee",
       "Albuquerque", "Tucson", "Fresno", "Sacramento", "Kansas City", "Mesa",
       "Atlanta", "Omaha", "Colorado Springs", "Raleigh", "Long Beach",
       "Virginia Beach", "Miami", "Oakland", "Minneapolis", "Tulsa", "Bakersfield",
       "Wichita", "Arlington", "Aurora", "Tampa", "New Orleans", "Cleveland",
       "Honolulu", "Anaheim", "Lexington", "Stockton", "Corpus Christi", "Henderson",
       "Riverside", "Newark", "Saint Paul", "Santa Ana", "Cincinnati", "Irvine",
       "Orlando", "Pittsburgh", "St. Louis", "Greensboro", "Jersey City", "Anchorage",
       "Lincoln", "Plano", "Durham", "Buffalo", "Chandler", "Chula Vista", "Toledo",
       "Madison", "Gilbert", "Reno", "Fort Wayne", "North Las Vegas", "St. Petersburg",
       "Lubbock", "Irving", "Laredo", "Winston-Salem", "Chesapeake", "Glendale",
       "Garland", "Scottsdale", "Norfolk", "Boise", "Fremont", "Spokane",
       "Santa Clarita", "Baton Rouge", "Richmond", "Hialeah", "Carlsbad", "Oceanside",
       "Escondido", "Vista", "Encinitas", "San Marcos", "Poway", "La Jolla", "Del Mar",
       "Solana Beach", "Rancho Santa Fe", "Coronado", "Chula Vista", "National City",
       "Imperial Beach", "La Mesa", "El Cajon", "Santee", "Lakeside" >>

\* [...xs].sort((a, b) => b.length - a.length) from length n down: the sort
\* is stable, elements of one length keep their order
RECURSIVE ByLengthFrom(_, _)
ByLengthFrom(xs, n) ==
    IF n = 0 THEN <<>>
    ELSE SelectSeq(xs, LAMBDA x : Len(x) = n) \o ByLengthFrom(xs, n - 1)

\* the array as it is, not sorted
NotSorted(xs) == xs

SortedByLengthDesc(xs) ==
    ByLengthFrom(xs, CHOOSE n \in { Len(xs[k]) : k \in 1..Len(xs) } :
                         \A k \in 1..Len(xs) : Len(xs[k]) <= n)

\* buildStatePattern(), with the case of the source (ci FALSE) or lowercased
StatePattern(ci) ==
    Alt([k \in 1..Len(US_STATES) |->
            L(IF ci THEN toLowerCase(SortedByLengthDesc(US_STATES)[k])
              ELSE SortedByLengthDesc(US_STATES)[k])])

\* [0-9]{5}(?:-[0-9]{4})?\b
Zip == Cat(<<Rep(D, 5, 5), Opt(Cat(<<L("-"), Rep(D, 4, 4)>>)), WB>>)

\* the patterns of getAddressPatterns() that match a ZIP: "City, State ZIP",
\* "State ZIP only" and "US ZIP code".  The other patterns of the array
\* (streets, units, PO boxes, foreign post codes, keywords) match no text of
\* AddressTexts.
ADDRESS_PATTERNS ==
    << [kind |-> "address", name |-> "City, State ZIP",
        re |-> RegExp(Cat(<<WB, C(Lower), Plus(C(Lower)),
                            Star(Cat(<<WS1, C(Lower), Plus(C(Lower))>>)),
                            Opt(C({",", "."})), WS0, StatePattern(TRUE), WS0, Zip>>),
                      TRUE)],
       [kind |-> "address", name |-> "State ZIP",
        re |-> RegExp(Cat(<<WB, StatePattern(FALSE), WS1, Zip>>), FALSE)],
       [kind |-> "address", name |-> "ZIP",
        re |-> RegExp(Cat(<<WB, Zip>>), FALSE)] >>

\* getCityPatterns()
getCityPatterns ==
    LET sortedCities == SortedByLengthDesc(MAJOR_CITIES)
    IN  [k \in 1..Len(sortedCities) |->
            [kind |-> "city", name |-> sortedCities[k],
             re |-> RegExp(Cat(<<WB, L(toLowerCase(sortedCities[k])), WS0,
                                 Opt(C({",", "."})), WS0,
                                 Opt(Cat(<<Rep(C(Lower), 2, 2), WS0>>)), Zip>>),
                           TRUE)]]

CITY_PATTERNS == getCityPatterns

\* the physical_addresses entry of PATTERNS
PhysicalAddresses ==
    [category |-> "physical_addresses",
     patterns |-> ADDRESS_PATTERNS \o CITY_PATTERNS,
     replacement |-> "[REDACTED_ADDRESS]"]

\* texts with a city name, with and without a state and a ZIP
AddressTexts ==
    { "North Las Vegas XX89101", "Las Vegas 89101", "Vista, CA 92084",
      "Chula Vista QQ91910-1234", "moved to Reno", "NV 89501 Reno",
      "St. Louis, mo63101", "La Mesa zz91941 Mesa zz85201" }

\* PATTERNS as a call with categories = ['physical_addresses'] sees it: the
\* entries of every other category are skipped
AddressTable == <<PhysicalAddresses>>

\* sanitizeText(t, {enabled: true, categories: ['physical_addresses']})
CallAddresses ==
    /\ pc = "idle"
    /\ \E t \in AddressTexts :
          /\ words' = <<>>
          /\ Enter(t, [enabled |-> TRUE, categories |-> <<"physical_addresses">>])

\* the texts of the matches
Found(s, ms) == [j \in 1..Len(ms) |-> Matched(s, ms[j])]

\* one iteration of for (const regex of pattern.patterns) on physical_addresses
ApplyAddressRegex ==
    /\ pc = "loop"
    /\ pi <= Len(AddressTable)
    /\ Includes(options.categories, AddressTable[pi].category)
    /\ \E pattern \in {AddressTable[pi]} :
       \E matches \in {MatchAll(pattern.patterns[ri].re, Subject)} :
       \E replaced \in {ReplaceSpans(Subject, matches, 1, pattern.replacement)} :
           /\ countsByCategory' =
                 [countsByCategory EXCEPT ![pattern.category] = @ + Len(matches)]
           /\ totalCount' = totalCount + Len(matches)
           /\ result' = replaced
           /\ log' = Append(log, [pi |-> pi, ri |-> ri, category |-> pattern.category,
                                  kind |-> pattern.patterns[ri].kind,
                                  name |-> pattern.patterns[ri].name,
                                  on |-> Subject, n |-> Len(matches),
                                  found |-> Found(Subject, matches),
                                  out |-> replaced])
           /\ lastIndex' = LastIndexStep(<<pattern.category, ri>>, matches)
           /\ IF ri < Len(pattern.patterns)
              THEN pi' = pi /\ ri' = ri + 1
              ELSE pi' = pi + 1 /\ ri' = 1
    /\ UNCHANGED <<pc, words, text, options, ret, calls, firstRet, marks, rematched>>
    /\ UNCHANGED <<parserVars, appVars>>

\* the loops are over: return
ReturnAddresses ==
    /\ pc = "loop"
    /\ pi > Len(AddressTable)
    /\ pc' = "done"
    /\ ret' = [text |-> result, redactionCount |-> totalCount,
               redactionsByCategory |-> countsByCategory]
    /\ firstRet' = IF calls = 1 THEN ret' ELSE firstRet
    /\ UNCHANGED <<words, text, options, result, totalCount, countsByCategory,
                   pi, ri, calls, marks, rematched, log, lastIndex>>
    /\ UNCHANGED <<parserVars, appVars>>

NextAddresses == CallAddresses \/ ApplyAddressRegex \/ ReturnAddresses

SpecAddresses == Init /\ [][NextAddresses]_vars

\* s occurs in t
IsSubstring(s, t) ==
    \E p \in 1..(Len(t) - Len(s) + 1) : SubSeq(t, p, p + Len(s) - 1) = s

\* s is a ZIP: five digits, or five digits, a hyphen and four digits
IsZip(s) ==
    \/ Len(s) = 5 /\ \A p \in 1..5 : SubSeq(s, p, p) \in Digit
    \/ /\ Len(s) = 10
       /\ SubSeq(s, 6, 6) = "-"
       /\ \A p \in (1..5) \cup (7..10) : SubSeq(s, p, p) \in Digit

\* s is the city name, in any case, and then text that ends with a ZIP
IsCityThenZip(s, city) ==
    /\ Len(s) >= Len(city) + 5
    /\ toLowerCase(SubSeq(s, 1, Len(city))) = toLowerCase(city)
    /\ \/ IsZip(SubSeq(s, Len(s) - 4, Len(s)))
          /\ (Len(s) < Len(city) + 10 \/ SubSeq(s, Len(s) - 9, Len(s) - 5) # "-")
       \/ Len(s) >= Len(city) + 10 /\ IsZip(SubSeq(s, Len(s) - 9, Len(s)))

\* C21: within physical_addresses every address pattern, the bare ZIP pattern
\* included, is applied before any city pattern; the city patterns are applied
\* in non-increasing order of the length of the city name, so a name that
\* contains another listed name is applied before it; and what a city pattern
\* matches is the city name followed by a ZIP.
C21_AddressOrder ==
    /\ \A i \in 1..Len(log), j \in 1..Len(log) :
          /\ "kind" \in DOMAIN log[i]
          /\ (log[i].kind = "address" /\ log[j].kind = "city" => i < j)
          /\ (i < j /\ log[i].kind = "city" /\ log[j].kind = "city"
                => Len(log[i].name) >= Len(log[j].name))
          /\ (log[i].kind = "city" /\ log[j].kind = "city"
              /\ log[i].name # log[j].name /\ IsSubstring(log[j].name, log[i].name)
                => i < j)
    /\ \A i \in 1..Len(log) :
          /\ log[i].ri = i
          /\ (log[i].kind = "city" =>
                \A k \in 1..Len(log[i].found) :
                    IsCityThenZip(log[i].found[k], log[i].name))
    /\ (Len(log) > Len(ADDRESS_PATTERNS) =>
          \E i \in 1..Len(ADDRESS_PATTERNS) : log[i].name = "ZIP")
    /\ (pc = "done" => Len(log) = Len(ADDRESS_PATTERNS) + Len(MAJOR_CITIES))

\* the call is over, the pattern of 'La Mesa' was applied before the pattern
\* of 'Mesa' and each of them matched a city followed by a ZIP
C21_Witness ==
    /\ pc = "done"
    /\ \E i \in 1..Len(log), j \in 1..Len(log) :
          /\ i < j
          /\ log[i].name = "La Mesa" /\ log[i].n = 1
          /\ log[j].name = "Mesa" /\ log[j].n = 1
    /\ ret.redactionCount = 2

\* ------------------------------------------------------------------------
\* Sequences of calls of sanitizeText
\* ------------------------------------------------------------------------
CallTexts ==
    { "", "123-45-6789", "pin: 2125551234", "My SSN is 123-45-6789",
      "[REDACTED_TAX_ID] 4111 1111 1111 1111" }

CallOptions ==
    { [enabled |-> FALSE, categories |-> <<"tax_ids">>],
      [enabled |-> TRUE, categories |-> <<"tax_ids">>],
      [enabled |-> TRUE, categories |-> <<"phone_numbers", "credit_cards">>] }

\* a call on any text and options, the first one or after other calls
CallAny ==
    /\ pc \in {"idle", "done"}
    /\ calls < MaxCalls
    /\ \E t \in CallTexts, o \in CallOptions :
          /\ words' = IF calls = 0 THEN <<t>> ELSE words
          /\ Enter(t, o)

NextCalls == CallAny \/ SkipCategory \/ ApplyRegex \/ Return

SpecCalls == Init /\ [][NextCalls]_vars

\* what the loops of sanitizeText return for the text t and the categories cs
\* when no call came before: the schedule sch of (entry, regex) pairs is
\* applied to the record r of result, totalCount and countsByCategory
AppliedOne(r, entry) ==
    LET pattern == PATTERNS[entry[1]]
        matches == MatchAll(pattern.patterns[entry[2]], r.text)
    IN  [text |-> ReplaceSpans(r.text, matches, 1, pattern.replacement),
         redactionCount |-> r.redactionCount + Len(matches),
         redactionsByCategory |->
             [r.redactionsByCategory EXCEPT ![pattern.category] = @ + Len(matches)]]
RECURSIVE Applied(_, _)
Applied(r, sch) ==
    IF Len(sch) = 0 THEN r
    ELSE CHOOSE res \in { Applied(AppliedOne(x, Head(sch)), Tail(sch)) : x \in {r} } : TRUE

\* the value of sanitizeText(t, o) as a function of t and o alone
ResultOf(t, o) ==
    IF ~o.enabled \/ t = ""
    THEN [text |-> t, redactionCount |-> 0, redactionsByCategory |-> EmptyObject]
    ELSE Applied([text |-> t, redactionCount |-> 0,
                  redactionsByCategory |-> [c \in RegistrySet |-> 0]],
                 ScheduleFrom(1, Range(o.categories)))

\* C22: whatever calls came before, a call returns what its text and options
\* alone determine, and between two pattern applications and between two calls
\* lastIndex of every shared pattern object is 0: no scan position is carried
\* over.
C22_NoStateAcrossCalls ==
    /\ \A k \in DOMAIN lastIndex : lastIndex[k] = 0
    /\ pc = "done" => ret = ResultOf(text, options)

\* a second call has returned with redactions, on a text and with options other
\* than those of the first call, which had redactions too
C22_Witness ==
    /\ pc = "done"
    /\ calls = 2
    /\ words # <<text>>
    /\ firstRet.redactionCount > 0
    /\ firstRet.redactionsByCategory # ret.redactionsByCategory
    /\ ret.redactionCount > 0
    /\ \E k \in DOMAIN lastIndex : k[1] \notin Range(options.categories)

\* the sum of the counts of the first k categories of the registry that the
\* returned map holds
RECURSIVE SumOfCounts(_, _)
SumOfCounts(r, k) ==
    IF k = 0 THEN 0
    ELSE (IF ALL_REDACTION_CATEGORIES[k] \in DOMAIN r.redactionsByCategory
          THEN r.redactionsByCategory[ALL_REDACTION_CATEGORIES[k]] ELSE 0)
         + SumOfCounts(r, k - 1)

\* C27: an enabled call returns a redactionCount equal to the sum of
\* redactionsByCategory over all categories, a count of 0 for every category
\* that is not in options.categories, and no negative count.
C27_CountsAddUp ==
    (pc = "done" /\ options.enabled) =>
        /\ ret.redactionCount = SumOfCounts(ret, Len(ALL_REDACTION_CATEGORIES))
        /\ \A c \in RegistrySet \ Range(options.categories) :
              c \in DOMAIN ret.redactionsByCategory /\ ret.redactionsByCategory[c] = 0
        /\ \A c \in DOMAIN ret.redactionsByCategory : ret.redactionsByCategory[c] >= 0

\* C27 on the calls that reach the loops (a text that is not empty)
C27_CountsAddUpAfterLoops ==
    Sanitized =>
        /\ ret.redactionCount = SumOfCounts(ret, Len(ALL_REDACTION_CATEGORIES))
        /\ \A c \in RegistrySet \ Range(options.categories) :
              c \in DOMAIN ret.redactionsByCategory /\ ret.redactionsByCategory[c] = 0
        /\ \A c \in DOMAIN ret.redactionsByCategory : ret.redactionsByCategory[c] >= 0

\* ------------------------------------------------------------------------
\* src/csv.ts: csvEscape and createOutputManager
\* ------------------------------------------------------------------------
MaxWrites == 3

\* csvEscape(value)
csvEscape(value) ==
    LET v == Trim(Replace(Replace(Replace(Replace(OrElse(value, ""),
                  RegExp(L("\r\n"), FALSE), " "),
                  RegExp(L("\n"), FALSE), " "),
                  RegExp(L("\r"), FALSE), " "),
                  WhiteRun, " "))
    IN  IF Contains(v, "\"") \/ Contains(v, ",")
        THEN "\"" \o ReplaceChar(v, "\"", "\"\"") \o "\""
        ELSE v

\* Buffer.byteLength(s, 'utf8') for the characters up to U+00FF: one byte up
\* to U+007F, two bytes above
TwoByteChars == {"é", "ü", NBSP, SHY}
ByteLength(s) == Len(s) + Cardinality({ i \in 1..Len(s) : Ch(s, i) \in TwoByteChars })

\* String(n).padStart(width, '0')
PadStart(n, width) == Repeat("0", width - Len(ToString(n))) \o ToString(n)

\* generateTimestamp(): the local time of the call, here 2026-01-02 03:04:05
generateTimestamp == "20260102_030405"

\* getPartPath(part)
getPartPath(o, n) ==
    o.outputDir \o "/" \o o.baseFilename
        \o (IF n > 1 THEN "_part" \o PadStart(n, 3) ELSE "") \o ".csv"

\* fs.createWriteStream(path): the file is created, or emptied when it exists
CreateWriteStream(files, path) == (path :> <<>>) @@ files

\* stream.write(chunk)
StreamWrite(files, path, chunk) == [files EXCEPT ![path] = Append(@, chunk)]

\* writeHeader: the line written
HeaderLine(fields) == JoinWith(fields, ",") \o "\n"

\* createOutputManager(opts): the first part with its header
createOutputManager(opts) ==
    LET o == [outputDir |-> opts.outputDir,
              baseFilename |-> opts.prefix \o
                  (IF opts.includeTimestamp THEN "_" \o generateTimestamp ELSE ""),
              maxBytesPerFile |-> opts.maxBytesPerFile,
              fields |-> opts.fields]
        path == getPartPath(o, 1)
        headerBytes == ByteLength(HeaderLine(o.fields))
    IN  /\ disk' = StreamWrite(CreateWriteStream(disk, path), path, HeaderLine(o.fields))
        /\ output' = Some([outputDir |-> o.outputDir, baseFilename |-> o.baseFilename,
                           maxBytesPerFile |-> o.maxBytesPerFile, fields |-> o.fields,
                           partIndex |-> 1, currentPath |-> path,
                           bytesInCurrentFile |-> headerBytes,
                           totalBytes |-> headerBytes,
                           filesCreated |-> <<path>>, ended |-> FALSE])
        /\ writes' = <<>>

\* rotateIfNeeded(nextLineBytes) on the closure o: the closure after it; the
\* new part is created and its header written by Rotated's caller
\* a rotation once the current part has reached the limit
RotationWhenFull(o, nextLineBytes) ==
    o.maxBytesPerFile > 0 /\ o.bytesInCurrentFile >= o.maxBytesPerFile

NeedsRotation(o, nextLineBytes) ==
    o.maxBytesPerFile > 0 /\ o.bytesInCurrentFile + nextLineBytes > o.maxBytesPerFile

Rotated(o) ==
    [o EXCEPT !.partIndex = @ + 1,
              !.currentPath = getPartPath(o, o.partIndex + 1),
              !.bytesInCurrentFile = ByteLength(HeaderLine(o.fields)),
              !.filesCreated = Append(@, getPartPath(o, o.partIndex + 1))]

\* output.write(row)
OutputWrite(row) ==
    \E o \in {output[1]} :
    \E ln \in { JoinWith([k \in 1..Len(o.fields) |->
                             csvEscape(IF o.fields[k] \in DOMAIN row
                                       THEN Some(row[o.fields[k]]) ELSE Undefined)],
                          ",") \o "\n" } :
    \E lineBytes \in {ByteLength(ln)} :
    \E rotate \in {NeedsRotation(o, lineBytes)} :
    \E r \in {IF rotate THEN Rotated(o) ELSE o} :
        /\ disk' = StreamWrite(IF rotate
                               THEN StreamWrite(CreateWriteStream(disk, r.currentPath),
                                                r.currentPath, HeaderLine(o.fields))
                               ELSE disk,
                               r.currentPath, ln)
        /\ output' = Some([r EXCEPT !.bytesInCurrentFile = @ + lineBytes,
                                    !.totalBytes = @ + lineBytes])
        /\ writes' = Append(writes, [chunk |-> ln, bytes |-> lineBytes,
                                     before |-> o.bytesInCurrentFile,
                                     rotated |-> rotate, path |-> r.currentPath])

\* output.close()
OutputClose == output' = Some([output[1] EXCEPT !.ended = TRUE])

\* the options and the rows of the calls
CsvFields == <<"subject", "body_text">>
MaxBytesValues == {0, 10, 30, 40}
Rows ==
    { [subject |-> "Hi", body_text |-> "ok"],
      [subject |-> "a,b", body_text |-> "x\ny"],
      [subject |-> "é", body_text |-> "say \"hi\""],
      [subject |-> "", body_text |-> "0123456789012345678901234"] }

\* const output = createOutputManager({...})
Create ==
    /\ output = Undefined
    /\ \E max \in MaxBytesValues, ts \in BOOLEAN :
          createOutputManager([outputDir |-> "exports", prefix |-> "gmail_export",
                               includeTimestamp |-> ts, maxBytesPerFile |-> max,
                               fields |-> CsvFields])
    /\ UNCHANGED <<sanVars, parserVars, split, run, proc>>

Write ==
    /\ output # Undefined
    /\ ~output[1].ended
    /\ Len(writes) < MaxWrites
    /\ \E row \in Rows : OutputWrite(row)
    /\ UNCHANGED <<sanVars, parserVars, split, run, proc>>

Close ==
    /\ output # Undefined
    /\ ~output[1].ended
    /\ OutputClose
    /\ UNCHANGED <<sanVars, parserVars, disk, writes, split, run, proc>>

NextCsv == Create \/ Write \/ Close

SpecCsv == Init /\ [][NextCsv]_vars

\* the size in bytes of the file at path
RECURSIVE BytesOfChunks(_)
BytesOfChunks(chunks) ==
    IF Len(chunks) = 0 THEN 0 ELSE ByteLength(Head(chunks)) + BytesOfChunks(Tail(chunks))

FileSize(path) == BytesOfChunks(disk[path])

\* the data rows of the parts, in the order of the parts
RECURSIVE DataRows(_)
DataRows(paths) ==
    IF Len(paths) = 0 THEN <<>>
    ELSE Tail(disk[Head(paths)]) \o DataRows(Tail(paths))

\* C26: with maxBytesPerFile > 0 every part begins with the header row, the
\* rows are written whole, each to one part, in write order, a rotation comes
\* before a write exactly when the bytes of the current part plus the bytes
\* of the row exceed maxBytesPerFile, and a part larger than maxBytesPerFile
\* holds exactly one data row; with maxBytesPerFile = 0 there is no rotation
\* and one file.
C26_RotationKeepsRowsWhole ==
    output # Undefined =>
        LET o == output[1]
        IN  /\ \A p \in DOMAIN disk :
                  Len(disk[p]) >= 1 /\ disk[p][1] = HeaderLine(o.fields)
            /\ DataRows(o.filesCreated) = [k \in 1..Len(writes) |-> writes[k].chunk]
            /\ \A k \in 1..Len(writes) :
                  writes[k].rotated =
                      (o.maxBytesPerFile > 0 /\
                       writes[k].before + writes[k].bytes > o.maxBytesPerFile)
            /\ (o.maxBytesPerFile > 0 =>
                  \A p \in DOMAIN disk :
                      FileSize(p) > o.maxBytesPerFile => Len(disk[p]) = 2)
            /\ (o.maxBytesPerFile = 0 => Cardinality(DOMAIN disk) = 1)

\* C26 but for the parts larger than maxBytesPerFile, which hold at most one
\* data row
C26_AtMostOneRowInALargePart ==
    output # Undefined =>
        LET o == output[1]
        IN  /\ \A p \in DOMAIN disk :
                  Len(disk[p]) >= 1 /\ disk[p][1] = HeaderLine(o.fields)
            /\ DataRows(o.filesCreated) = [k \in 1..Len(writes) |-> writes[k].chunk]
            /\ \A k \in 1..Len(writes) :
                  writes[k].rotated =
                      (o.maxBytesPerFile > 0 /\
                       writes[k].before + writes[k].bytes > o.maxBytesPerFile)
            /\ (o.maxBytesPerFile > 0 =>
                  \A p \in DOMAIN disk :
                      FileSize(p) > o.maxBytesPerFile => Len(disk[p]) <= 2)
            /\ (o.maxBytesPerFile = 0 => Cardinality(DOMAIN disk) = 1)

\* three rows written, one of them after a rotation and one without, and a
\* part larger than maxBytesPerFile that holds one data row
C26_Witness ==
    /\ output # Undefined
    /\ output[1].maxBytesPerFile > 0
    /\ Len(writes) = 3
    /\ \E j, k \in 1..Len(writes) : writes[j].rotated /\ ~writes[k].rotated
    /\ \E p \in DOMAIN disk :
          FileSize(p) > output[1].maxBytesPerFile /\ Len(disk[p]) = 2

\* the sum of the sizes of the files at paths
RECURSIVE SizeOfFiles(_)
SizeOfFiles(paths) ==
    IF Len(paths) = 0 THEN 0 ELSE FileSize(Head(paths)) + SizeOfFiles(Tail(paths))

\* C29: getBytesWritten() is the sum of the sizes of all part files created so
\* far, the header row of every part included, and getFilesCreated() lists
\* one distinct path per part created, in creation order.
C29_BytesWrittenIsTheSizeOfTheParts ==
    output # Undefined =>
        LET o == output[1]
        IN  /\ o.totalBytes = SizeOfFiles(o.filesCreated)
            /\ Range(o.filesCreated) = DOMAIN disk
            /\ Len(o.filesCreated) = o.partIndex
            /\ \A k \in 1..Len(o.filesCreated) :
                  o.filesCreated[k] = getPartPath(o, k)
            /\ \A j, k \in 1..Len(o.filesCreated) :
                  j # k => o.filesCreated[j] # o.filesCreated[k]

\* getFilesCreated() alone is as stated, and getBytesWritten() holds the
\* header row of the first part only
C29_BytesWrittenLacksLaterHeaders ==
    output # Undefined =>
        LET o == output[1]
        IN  /\ o.totalBytes = SizeOfFiles(o.filesCreated)
                   - (o.partIndex - 1) * ByteLength(HeaderLine(o.fields))
            /\ Range(o.filesCreated) = DOMAIN disk
            /\ \A k \in 1..Len(o.filesCreated) :
                  o.filesCreated[k] = getPartPath(o, k)

\* ------------------------------------------------------------------------
\* src/splitCsvBySize.mjs
\* ------------------------------------------------------------------------

\* readline: the line endings \r\n, \n and \r
LineEnding == RegExp(Alt(<<Cat(<<Opt(L("\r")), L("\n")>>), L("\r")>>), FALSE)

\* the pieces of s from position p on, between the spans
RECURSIVE Pieces(_, _, _)
Pieces(s, spans, p) ==
    IF Len(spans) = 0 THEN <<SubSeq(s, p, Len(s))>>
    ELSE <<SubSeq(s, p, Head(spans).from - 1)>> \o Pieces(s, Tail(spans), Head(spans).to)

\* for await (const line of rl): the lines of the text; what follows the
\* last line ending is a line unless it is empty
ReadLines(s) ==
    LET pieces == Pieces(s, MatchAll(LineEnding, s), 1)
    IN  IF pieces[Len(pieces)] = "" THEN SubSeq(pieces, 1, Len(pieces) - 1) ELSE pieces

\* --maxMB, in units of 1 / 2097152 MB (half a byte)
MaxMBValues == {0, 1, 8, 18, 19, 100}

\* Math.floor(maxMB * 1024 * 1024)
MaxBytesOf(maxMB) == maxMB \div 2

\* --input: the path and the texts of the file
InputPath == "data/in_001.csv"
InputTexts ==
    { "id,s\n1,a\n2,bb\n3,c\n", "id,s\r\n1,a\r\n2,bb", "id,s\n", "",
      "id,s\n\n1,é\n" }

\* --prefix: absent, or a prefix of the name of the input
Prefixes == {Undefined, Some("in_")}

\* path.dirname(input) and path.basename(input, path.extname(input))
Dirname == "data"
InputBase == "in_001"

\* path.join(outDir, `${prefix}${padPart(part)}.csv`)
SplitPath(prefix, n) == Dirname \o "/" \o prefix \o PadStart(n, 3) \o ".csv"

\* main up to the loop: the arguments, the reader and the first part.  When
\* the first part is the input file itself the file is emptied while it is
\* read, and the reader delivers any number of its lines.
SplitMain ==
    /\ split.pc = "idle"
    /\ \E txt \in InputTexts, maxMB \in MaxMBValues, prefixRaw \in Prefixes :
          IF maxMB <= 0
          THEN /\ split' = [pc |-> "exit", code |-> 1]
               /\ disk' = (InputPath :> <<txt>>)
          ELSE LET prefix == OrElse(prefixRaw, InputBase \o "_split_")
                   outPath == SplitPath(prefix, 1)
                   all == ReadLines(txt)
               IN  /\ disk' = CreateWriteStream((InputPath :> <<txt>>), outPath)
                   /\ \E n \in 0..Len(all) :
                         /\ (outPath # InputPath => n = Len(all))
                         /\ split' = [pc |-> "loop", input |-> InputPath, txt |-> txt,
                                      prefix |-> prefix, maxBytes |-> MaxBytesOf(maxMB),
                                      lines |-> SubSeq(all, 1, n), header |-> Undefined,
                                      part |-> 1, outPath |-> outPath, bytesInPart |-> 0,
                                      inputLines |-> 0, dataLines |-> 0]
    /\ UNCHANGED <<sanVars, parserVars, output, writes, run, proc>>

\* writeLine(line) on the variables sp and the files
WriteLineBytes(row) == ByteLength(row \o "\n")

\* one iteration of for await (const line of rl)
SplitLine ==
    /\ split.pc = "loop"
    /\ Len(split.lines) > 0
    /\ LET ln == Head(split.lines)
           sp == [split EXCEPT !.lines = Tail(@), !.inputLines = @ + 1]
       IN  IF split.header = Undefined
           THEN /\ split' = [sp EXCEPT !.header = Some(ln),
                                       !.bytesInPart = @ + WriteLineBytes(ln)]
                /\ disk' = StreamWrite(disk, split.outPath, ln \o "\n")
           ELSE LET rowBytes == WriteLineBytes(ln)
                    rotate == split.bytesInPart > 0 /\
                              split.bytesInPart + rowBytes > split.maxBytes
                    outPath == IF rotate THEN SplitPath(split.prefix, split.part + 1)
                               ELSE split.outPath
                    files == IF rotate
                             THEN StreamWrite(CreateWriteStream(disk, outPath), outPath,
                                              split.header[1] \o "\n")
                             ELSE disk
                    bytes == IF rotate THEN WriteLineBytes(split.header[1])
                             ELSE split.bytesInPart
                IN  /\ split' = [sp EXCEPT !.part = IF rotate THEN @ + 1 ELSE @,
                                            !.outPath = outPath,
                                            !.bytesInPart = bytes + rowBytes,
                                            !.dataLines = @ + 1]
                    /\ disk' = StreamWrite(files, outPath, ln \o "\n")
    /\ UNCHANGED <<sanVars, parserVars, output, writes, run, proc>>

\* the reader is at the end of the input: out.end()
SplitEnd ==
    /\ split.pc = "loop"
    /\ Len(split.lines) = 0
    /\ split' = [split EXCEPT !.pc = "done"]
    /\ UNCHANGED <<sanVars, parserVars, disk, output, writes, run, proc>>

NextSplit == SplitMain \/ SplitLine \/ SplitEnd

SpecSplit == Init /\ [][NextSplit]_vars

\* the paths of the parts created, in part order
PartPaths == [k \in 1..split.part |-> SplitPath(split.prefix, k)]

\* C25: every output part begins with the header line of the input, the data
\* lines of the parts in part order are the data lines of the input in the
\* same order, a part is larger than the limit only when it holds a single
\* data row that cannot fit, and the input file is never written to.
C25_PartsHoldTheInputRows ==
    (split.pc = "done" /\ Len(ReadLines(split.txt)) > 0) =>
        LET all == ReadLines(split.txt)
        IN  /\ \A k \in 1..split.part :
                  /\ Len(disk[PartPaths[k]]) >= 1
                  /\ disk[PartPaths[k]][1] = all[1] \o "\n"
            /\ DataRows(PartPaths) = [k \in 1..(Len(all) - 1) |-> all[k + 1] \o "\n"]
            /\ \A k \in 1..split.part :
                  FileSize(PartPaths[k]) > split.maxBytes =>
                      /\ Len(disk[PartPaths[k]]) = 2
                      /\ WriteLineBytes(all[1]) + ByteLength(disk[PartPaths[k]][2])
                             > split.maxBytes
            /\ disk[split.input] = <<split.txt>>

\* C25 for an output that is not the input file, but for the first part,
\* which holds the header alone when the first data row does not fit
C25_ButForTheFirstPart ==
    (split.pc = "done" /\ Len(ReadLines(split.txt)) > 0
                       /\ SplitPath(split.prefix, 1) # split.input) =>
        LET all == ReadLines(split.txt)
        IN  /\ \A k \in 1..split.part :
                  /\ Len(disk[PartPaths[k]]) >= 1
                  /\ disk[PartPaths[k]][1] = all[1] \o "\n"
            /\ DataRows(PartPaths) = [k \in 1..(Len(all) - 1) |-> all[k + 1] \o "\n"]
            /\ \A k \in 2..split.part :
                  FileSize(PartPaths[k]) > split.maxBytes =>
                      Len(disk[PartPaths[k]]) = 2
            /\ (FileSize(PartPaths[1]) > split.maxBytes => Len(disk[PartPaths[1]]) <= 2)
            /\ disk[split.input] = <<split.txt>>

\* ------------------------------------------------------------------------
\* src/exporter.ts: extractFields and runExport
\* ------------------------------------------------------------------------

\* o.key of an object o: undefined when the object has no such key
Prop(o, key) == IF key \in DOMAIN o THEN Some(o[key]) ELSE Undefined

\* the statements of extractBodyText on the decoded text of the part: the
\* conversion of a text/html part, cleanText, and the cut to maxChars
ConvertedText(mimeType, decoded) ==
    IF decoded = "" \/ mimeType \notin {"text/plain", "text/html"} THEN Some("")
    ELSE IF mimeType = "text/plain" THEN Some(decoded)
    ELSE htmlToTextKeepingLinks(decoded)

CleanedText(converted) ==
    IF converted = Undefined THEN Undefined ELSE cleanText(converted[1])

CutText(cleaned, max) ==
    IF cleaned = Undefined THEN Undefined ELSE Some(Truncated(cleaned[1], max))

\* extractBodyText(payload, maxChars) for a payload of one part that is not
\* an attachment: the text, or Undefined when the call throws
extractBodyText(payload, max) ==
    CutText(CleanedText(ConvertedText(payload.mimeType,
                Trim(IF payload.data = "" THEN "" ELSE decodeBase64Url(payload.data)))),
            max)

\* extractBodyHtml(payload, maxChars) for such a payload
extractBodyHtml(payload, max) ==
    LET html == Trim(IF payload.data = "" \/ payload.mimeType # "text/html" THEN ""
                     ELSE decodeBase64Url(payload.data))
    IN  Some(Truncated(html, max))

\* the body_text and body_html cases of extractFields: the text extracted, and
\* redacted when config.sanitize.enabled
BodyField(extracted, config) ==
    IF extracted = Undefined \/ Prop(config, "sanitize") = Undefined THEN Undefined
    ELSE IF config.sanitize.enabled
    THEN Some(ResultOf(extracted[1], config.sanitize).text)
    ELSE extracted

\* the row of extractFields from its body fields: none when one of them threw
RowOf(msg, config, bodyText, bodyHtml) ==
    IF bodyText = Undefined \/ bodyHtml = Undefined THEN Undefined
    ELSE Some([subject |-> IF Includes(config.fields, "subject") THEN msg.subject ELSE "",
               body_text |-> bodyText[1], body_html |-> bodyHtml[1]])

\* extractFields(msg, config): the row, or Undefined when the call throws.
\* Of the 21 fields of a row the model keeps subject, body_text and body_html.
extractFields(msg, config) ==
    RowOf(msg, config,
          IF Includes(config.fields, "body_text")
          THEN BodyField(extractBodyText(msg, config.bodyMaxChars), config)
          ELSE Some(""),
          IF Includes(config.fields, "body_html")
          THEN BodyField(extractBodyHtml(msg, config.bodyMaxChars), config)
          ELSE Some(""))

\* the messages of the mailbox: users.messages.list gives their ids, page by
\* page, and users.messages.get their subject and their payload of one part
Message(id, mimeType, data) ==
    [id |-> id, subject |-> "Hi, all", mimeType |-> mimeType, data |-> data]
MsgSsn == Message(Some("a"), "text/plain", "MTIzLTQ1LTY3ODk")
MsgHtmlSsn == Message(Some("b"), "text/html", "MTIzLTQ1LTY3ODk")
MsgHtml == Message(Some("c"), "text/html", "PHA-SGkgJiM2NTs8L3A-")
MsgLong == Message(Some("d"), "text/plain", "TXkgU1NOIGlzIDEyMy00NS02Nzg5")
MsgNoId == Message(Undefined, "text/plain", "SGk")
MsgBadEntity == Message(Some("e"), "text/html", "JiN4MTEwMDAwOw")

\* the pages users.messages.list returns: page k carries the token of page
\* k + 1 when there is one
Mailboxes ==
    { << <<MsgSsn, MsgHtml>>, <<MsgNoId, MsgLong>> >>,
      << <<MsgHtmlSsn>>, <<>>, <<MsgHtml>> >>,
      << <<MsgBadEntity, MsgSsn>> >>,
      << <<>> >>,
      << <<MsgLong, MsgHtmlSsn, MsgSsn>> >> }

\* the configurations of type ExportConfig
ExportConfigs ==
    [maxMessages : {0, 1, 2}, bodyMaxChars : {0, 11},
     fields : {<<"subject", "body_text">>, <<"body_html", "subject">>},
     maxBytesPerFile : {30}, outputDir : {"exports"}, outputPrefix : {"gmail_export"},
     includeTimestamp : {FALSE},
     sanitize : { [enabled |-> FALSE, categories |-> <<"tax_ids">>],
                  [enabled |-> TRUE, categories |-> <<"tax_ids">>] }]

\* runExport(auth, config) up to the main export loop
RunExport(config, mailbox) ==
    IF Prop(config, "sanitize") = Undefined
    THEN /\ run' = [pc |-> "threw", config |-> config, mailbox |-> mailbox,
                    pageToken |-> Undefined, messages |-> <<>>, i |-> 1, count |-> 0,
                    listed |-> <<>>, fetched |-> <<>>, rows |-> <<>>,
                    exported |-> <<>>, stats |-> Undefined]
         /\ UNCHANGED <<disk, output, writes>>
    ELSE /\ createOutputManager([outputDir |-> config.outputDir,
                                 prefix |-> config.outputPrefix,
                                 includeTimestamp |-> config.includeTimestamp,
                                 maxBytesPerFile |-> config.maxBytesPerFile,
                                 fields |-> config.fields])
         /\ run' = [pc |-> "list", config |-> config, mailbox |-> mailbox,
                    pageToken |-> Undefined, messages |-> <<>>, i |-> 1, count |-> 0,
                    listed |-> <<>>, fetched |-> <<>>, rows |-> <<>>,
                    exported |-> <<>>, stats |-> Undefined]

\* runExport called with any configuration, on any mailbox
RunExportAny ==
    /\ run.pc = "idle"
    /\ \E config \in ExportConfigs, mailbox \in Mailboxes : RunExport(config, mailbox)
    /\ UNCHANGED <<sanVars, parserVars, split, proc>>

\* the page a token stands for: the first page without a token
PageOf(token) == OrElse(token, 1)

\* gmail.users.messages.list(listParams) and the test of an empty page
List ==
    /\ run.pc = "list"
    /\ LET k == PageOf(run.pageToken)
           messages == run.mailbox[k]
       IN  run' = [run EXCEPT !.listed = Append(@, k),
                              !.messages = messages,
                              !.i = 1,
                              !.pc = IF Len(messages) = 0 THEN "close" ELSE "for"]
    /\ UNCHANGED <<sanVars, parserVars, disk, output, writes, split, proc>>

\* if (config.maxMessages > 0 && count >= config.maxMessages) break
LimitReached(config, n) == config.maxMessages > 0 /\ n >= config.maxMessages

\* one iteration of for (const m of messages); fetched logs the calls of
\* gmail.users.messages.get with the number of rows written before each
ExportMessage ==
    /\ run.pc = "for"
    /\ run.i <= Len(run.messages)
    /\ \E m \in {run.messages[run.i]} : \E row \in {extractFields(m, run.config)} :
           IF m.id = Undefined
           THEN /\ run' = [run EXCEPT !.i = @ + 1]
                /\ UNCHANGED <<disk, output, writes>>
           ELSE IF row = Undefined
           THEN /\ run' = [run EXCEPT !.fetched = Append(@, [id |-> m.id[1], written |-> Len(writes)]), !.pc = "threw"]
                /\ UNCHANGED <<disk, output, writes>>
           ELSE /\ OutputWrite(row[1])
                /\ run' = [run EXCEPT !.fetched = Append(@, [id |-> m.id[1], written |-> Len(writes)]),
                                      !.rows = Append(@, row[1]),
                                      !.exported = Append(@, m.id[1]),
                                      !.count = @ + 1,
                                      !.i = @ + 1,
                                      !.pc = IF LimitReached(run.config, run.count + 1)
                                             THEN "close" ELSE "for"]
    /\ UNCHANGED <<sanVars, parserVars, split, proc>>

\* after the for loop: the limit, then the token of the next page
NextPage ==
    /\ run.pc = "for"
    /\ run.i > Len(run.messages)
    /\ LET k == PageOf(run.pageToken)
           nextPageToken == IF k < Len(run.mailbox) THEN Some(k + 1) ELSE Undefined
       IN  run' = [run EXCEPT !.pageToken = nextPageToken,
                              !.pc = IF LimitReached(run.config, run.count)
                                        \/ nextPageToken = Undefined
                                     THEN "close" ELSE "list"]
    /\ UNCHANGED <<sanVars, parserVars, disk, output, writes, split, proc>>

\* output.close() and the return of the statistics
ReturnStats ==
    /\ run.pc = "close"
    /\ OutputClose
    /\ run' = [run EXCEPT !.pc = "done",
                          !.stats = Some([totalExported |-> run.count,
                                          filesCreated |-> output[1].filesCreated])]
    /\ UNCHANGED <<sanVars, parserVars, disk, writes, split, proc>>

NextExport == RunExportAny \/ List \/ ExportMessage \/ NextPage \/ ReturnStats

SpecExport == Init /\ [][NextExport]_vars

\* the ids of the messages of the pages listed that have an id, in list order
RECURSIVE IdsOf(_)
IdsOf(messages) ==
    IF Len(messages) = 0 THEN <<>>
    ELSE (IF Head(messages).id = Undefined THEN <<>> ELSE <<Head(messages).id[1]>>)
         \o IdsOf(Tail(messages))
RECURSIVE ListedIds(_, _)
ListedIds(mailbox, pages) ==
    IF Len(pages) = 0 THEN <<>>
    ELSE IdsOf(mailbox[Head(pages)]) \o ListedIds(mailbox, Tail(pages))

\* the data rows in the files of the output, whatever the part
RowsWritten == DataRows(output[1].filesCreated)

\* runExport has stopped: it has left the loop, or an exception has ended it
Stopped == run.pc \in {"close", "done", "threw"}
LastListed == run.listed[Len(run.listed)]

\* the two clauses of the limit and of the pagination, and the total
LimitKept ==
    run.config.maxMessages > 0 =>
        /\ Len(RowsWritten) <= run.config.maxMessages
        /\ \A k \in 1..Len(run.fetched) : run.fetched[k].written < run.config.maxMessages
AllExported ==
    run.config.maxMessages = 0 =>
        /\ run.listed = [k \in 1..Len(run.listed) |-> k]
        /\ run.exported = SubSeq(ListedIds(run.mailbox, run.listed), 1, Len(run.exported))
        /\ Len(RowsWritten) = Len(run.exported)
        /\ Stopped =>
              /\ run.exported = ListedIds(run.mailbox, run.listed)
              /\ Len(run.listed) > 0
              /\ \/ Len(run.mailbox[LastListed]) = 0
                 \/ LastListed = Len(run.mailbox)
TotalIsRows ==
    run.pc = "done" => run.stats[1].totalExported = Len(RowsWritten)

\* C23: with maxMessages = N > 0 runExport never writes more than N rows and
\* fetches no message once N rows are written; with maxMessages = 0 it exports
\* every listed message that has an id, page after page in list order, each
\* once, and stops only when a page is empty or carries no nextPageToken; the
\* final totalExported is the number of rows written.
C23_LimitAndPagination ==
    run.pc # "idle" => LimitKept /\ AllExported /\ TotalIsRows

\* the same for the runs in which no message makes extractFields throw
C23_UnlessAMessageThrows ==
    (run.pc # "idle" /\ \A k \in 1..Len(run.mailbox) : \A j \in 1..Len(run.mailbox[k]) :
         run.mailbox[k][j] # MsgBadEntity)
    => LimitKept /\ AllExported /\ TotalIsRows

\* a run without limit that has returned after two pages, one message of
\* which has no id
C23_Returned ==
    /\ run.pc = "done"
    /\ run.config.maxMessages = 0
    /\ Len(run.listed) = 2
    /\ run.exported = <<"a", "c", "d">>

\* C30: with bodyMaxChars = M > 0 the body_text and the body_html of an
\* exported row are at most M code units long, sanitization enabled or not.
C30_BodyFieldsWithinMaxChars ==
    (run.pc # "idle" /\ run.config.bodyMaxChars > 0) =>
        \A k \in 1..Len(run.rows) :
            /\ Len(run.rows[k].body_text) <= run.config.bodyMaxChars
            /\ Len(run.rows[k].body_html) <= run.config.bodyMaxChars

\* the same for the runs in which sanitization is disabled
C30_WithinMaxCharsWhenNotSanitized ==
    (run.pc # "idle" /\ run.config.bodyMaxChars > 0 /\ ~run.config.sanitize.enabled) =>
        \A k \in 1..Len(run.rows) :
            /\ Len(run.rows[k].body_text) <= run.config.bodyMaxChars
            /\ Len(run.rows[k].body_html) <= run.config.bodyMaxChars

\* a body cut to the limit in a row written without sanitization
C30_CutWithoutSanitization ==
    /\ run.pc # "idle"
    /\ run.config.bodyMaxChars > 0
    /\ ~run.config.sanitize.enabled
    /\ \E k \in 1..Len(run.rows) : run.rows[k].body_text = "My SSN is 1"

\* ------------------------------------------------------------------------
\* src/config.ts, src/interactive.ts and src/index.ts: the command line
\* ------------------------------------------------------------------------

\* FIELD_DEFINITIONS: the names, and the names with default: true
ALL_FIELDS ==
    << "from_email", "from_name", "sender_domain", "reply_to", "reply_to_domain",
       "delivered_to", "to", "cc", "bcc", "subject", "snippet", "body_text",
       "body_html", "date", "message_id", "thread_id", "labels", "has_attachment",
       "attachment_types", "attachment_count", "has_list_unsubscribe" >>
DEFAULT_FIELDS ==
    << "from_email", "from_name", "sender_domain", "reply_to_domain", "delivered_to",
       "subject", "snippet", "has_attachment", "attachment_types",
       "has_list_unsubscribe" >>

\* the categories of the registry with default: true
OptionalCategories ==
    {"email_addresses", "order_numbers", "tracking_numbers", "booking_references",
     "financial_amounts", "regular_urls"}
DEFAULT_REDACTION_CATEGORIES ==
    SelectSeq(ALL_REDACTION_CATEGORIES, LAMBDA c : c \notin OptionalCategories)

\* DEFAULT_CONFIG: no sanitize among its keys
DefaultMaxBytes == 250 * 1024 * 1024
DefaultBodyMaxChars == 8000
DEFAULT_CONFIG ==
    [query |-> "-in:sent -in:spam -in:trash", maxMessages |-> 0,
     outputDir |-> "./exports", outputPrefix |-> "gmail_export",
     maxBytesPerFile |-> DefaultMaxBytes, includeTimestamp |-> TRUE,
     fields |-> DEFAULT_FIELDS, bodyMaxChars |-> DefaultBodyMaxChars,
     credentialsPath |-> "./credentials.json", tokenPath |-> "./token.json"]

\* {...a, ...b}: the keys of both, the values of b first
Spread(a, b) == b @@ a

\* the options of parseArgs that take the next argument, and its flags
ValueOptions ==
    [c \in {"-c", "--config"} |-> "config"] @@ [c \in {"-q", "--query"} |-> "query"]
    @@ [c \in {"-m", "--max-messages"} |-> "maxMessages"]
    @@ [c \in {"-o", "--output-dir"} |-> "outputDir"]
    @@ [c \in {"-p", "--prefix"} |-> "outputPrefix"]
    @@ [c \in {"-f", "--fields"} |-> "fields"]
    @@ [c \in {"--body-max-chars"} |-> "bodyMaxChars"]
    @@ [c \in {"--credentials"} |-> "credentialsPath"]
FlagOptions ==
    [c \in {"--no-timestamp"} |-> "noTimestamp"]
    @@ [c \in {"-i", "--interactive"} |-> "interactive"]
    @@ [c \in {"--setup"} |-> "setup"]
    @@ [c \in {"-h", "--help"} |-> "help"]
    @@ [c \in {"--list-fields"} |-> "listFields"]
    @@ [c \in {"--init"} |-> "init"]

\* the value parseArgs stores for an option that takes one: parseInt of the
\* run of digits for the two numbers, the argument as it is for the others
ArgValue(key, next) ==
    IF key = "maxMessages" THEN Some(ParseInt(OrElse(next, "0"), 10))
    ELSE IF key = "bodyMaxChars" THEN Some(ParseInt(OrElse(next, "8000"), 10))
    ELSE next

\* parseArgs(argv): the loop from argv[2]; an args.key that is undefined is a
\* key args does not have
RECURSIVE ParseArgsFrom(_, _, _)
ParseArgsFrom(argv, k, args) ==
    IF k > Len(argv) THEN args
    ELSE LET arg == argv[k]
             next == IF k < Len(argv) THEN Some(argv[k + 1]) ELSE Undefined
         IN  IF arg \in DOMAIN ValueOptions
             THEN LET v == ArgValue(ValueOptions[arg], next)
                  IN  ParseArgsFrom(argv, k + 2,
                          IF v = Undefined
                          THEN [key \in DOMAIN args \ {ValueOptions[arg]} |-> args[key]]
                          ELSE (ValueOptions[arg] :> v[1]) @@ args)
             ELSE IF arg \in DOMAIN FlagOptions
             THEN ParseArgsFrom(argv, k + 1, (FlagOptions[arg] :> TRUE) @@ args)
             ELSE ParseArgsFrom(argv, k + 1, args)
parseArgs(argv) == ParseArgsFrom(argv, 3, <<>>)

\* if (args.key) for a flag or a string: the key is there and its value is
\* neither false nor ''
FlagKeys == Range(FlagOptions) \cup {"guide"}
TruthyAt(o, key) ==
    key \in DOMAIN o /\ (IF key \in FlagKeys THEN o[key] ELSE o[key] # "")

\* the (truthy) entries of o under the keys given
Picked(o, keys) == [key \in { x \in keys : TruthyAt(o, x) } |-> o[key]]
Defined(o, keys) == [key \in keys \cap DOMAIN o |-> o[key]]

\* args.fields.split(',').map(trim).filter(ALL_FIELDS.includes)
ValidFields(list) ==
    SelectSeq([k \in 1..Len(Split(list, ",")) |-> Trim(Split(list, ",")[k])],
              LAMBDA f : Includes(ALL_FIELDS, f))

\* argsToConfig(args)
argsToConfig(args) ==
    LET plain == Picked(args, {"query", "outputDir", "outputPrefix", "credentialsPath"})
        numbers == Defined(args, {"maxMessages", "bodyMaxChars"})
        stamp == IF TruthyAt(args, "noTimestamp") THEN ("includeTimestamp" :> FALSE) ELSE <<>>
        fields == IF TruthyAt(args, "fields") /\ Len(ValidFields(args.fields)) > 0
                  THEN ("fields" :> ValidFields(args.fields)) ELSE <<>>
    IN  plain @@ numbers @@ stamp @@ fields

\* the keys validatePartialConfig and mergeConfigs copy
ConfigKeys ==
    {"query", "maxMessages", "outputDir", "outputPrefix", "maxBytesPerFile",
     "includeTimestamp", "fields", "bodyMaxChars", "credentialsPath", "tokenPath"}

\* validatePartialConfig(obj), for an object whose values have the types tested
validatePartialConfig(obj) ==
    LET kept == Defined(obj, ConfigKeys \ {"fields"})
        fields == IF "fields" \in DOMAIN obj
                     /\ Len(SelectSeq(obj.fields, LAMBDA f : Includes(ALL_FIELDS, f))) > 0
                  THEN ("fields" :> SelectSeq(obj.fields, LAMBDA f : Includes(ALL_FIELDS, f)))
                  ELSE <<>>
    IN  kept @@ fields

\* loadConfigFile(configPath): the file parsed, when there is one
loadConfigFile(file) == IF file = Undefined THEN <<>> ELSE validatePartialConfig(file[1])

\* mergeConfigs(fileConfig, cliConfig)
mergeConfigs(fileConfig, cliConfig) ==
    Defined(cliConfig, ConfigKeys) @@ Defined(fileConfig, ConfigKeys) @@ DEFAULT_CONFIG

\* path.resolve(process.cwd(), p)
Cwd == "/home/me"
PathResolve(p) ==
    IF Len(p) > 0 /\ Ch(p, 1) = "/" THEN p
    ELSE IF Len(p) >= 2 /\ SubSeq(p, 1, 2) = "./" THEN Cwd \o SubSeq(p, 2, Len(p))
    ELSE Cwd \o "/" \o p
Resolved(config) ==
    [config EXCEPT !.credentialsPath = PathResolve(@), !.tokenPath = PathResolve(@),
                   !.outputDir = PathResolve(@)]

\* the command lines, and the configuration files of the working directory
Argvs ==
    { <<"node", "gmail-export">> \o rest :
        rest \in { <<>>, <<"-i">>, <<"--interactive">>, <<"--setup">>, <<"-h">>,
                   <<"--setup", "--help">>, <<"--list-fields">>, <<"--init">>,
                   <<"-m", "1", "--no-timestamp">>, <<"--max-messages">>,
                   <<"-f", "subject, body_text,nope", "--body-max-chars", "11">>,
                   <<"-i", "-f", "nope">> } }
ConfigFiles ==
    { Undefined,
      Some([maxMessages |-> 2, fields |-> <<"subject", "body_text">>,
            sanitize |-> [enabled |-> TRUE, categories |-> <<"tax_ids">>]]) }

\* the first process.exit(code) decides the exit code
Exit(code) == [proc EXCEPT !.pc = "exited", !.exitCode = Some(code)]
Called(p, f) == [p EXCEPT !.calls = Append(@, f)]

\* main(), to its first await or to process.exit
Main ==
    /\ proc.pc = "idle"
    /\ \E argv \in Argvs, file \in ConfigFiles :
          LET args == parseArgs(argv)
              started == [pc |-> "main", argv |-> argv, args |-> args,
                          config |-> Undefined, calls |-> <<>>, exitCode |-> Undefined]
              utility == IF TruthyAt(args, "help") THEN Some("printHelp")
                         ELSE IF TruthyAt(args, "guide") THEN Some("showSetupGuide")
                         ELSE IF TruthyAt(args, "listFields") THEN Some("showFieldsList")
                         ELSE IF TruthyAt(args, "init") THEN Some("initConfigFile")
                         ELSE Undefined
          IN  proc' = IF utility # Undefined
                      THEN [Called(started, utility[1]) EXCEPT
                                !.pc = "exited", !.exitCode = Some(0)]
                      ELSE IF TruthyAt(args, "setup")
                      THEN [Called(started, "runInteractiveSetup") EXCEPT
                                !.pc = "interactive"]
                      ELSE [Called(Called(started, "loadConfigFile"), "mergeConfigs") EXCEPT
                                !.pc = "authorize",
                                !.config = Some(Resolved(mergeConfigs(
                                    loadConfigFile(IF "config" \in DOMAIN args
                                                   THEN Undefined ELSE file),
                                    argsToConfig(args))))]
    /\ UNCHANGED <<sanVars, parserVars, disk, output, writes, split, run>>

\* the answers to the questions of runInteractiveSetup
Answers ==
    [proceed : BOOLEAN, maxMessages : {0, 1},
     fields : {DEFAULT_FIELDS, <<"subject", "body_text">>},
     bodyLimit : {"2000", "0"}, includeTimestamp : BOOLEAN,
     maxBytesPerFile : {0}, sanitizeChoice : {"recommended", "all", "none"},
     startExport : BOOLEAN]

\* runInteractiveSetup(): process.exit(0) when the user does not go on, or
\* {...DEFAULT_CONFIG, ...config}
Interactive ==
    /\ proc.pc = "interactive"
    /\ \E a \in Answers :
          LET body == IF Includes(a.fields, "body_text") \/ Includes(a.fields, "body_html")
                      THEN ("bodyMaxChars" :> ParseInt(a.bodyLimit, 10)) ELSE <<>>
              config == [query |-> DEFAULT_CONFIG.query, maxMessages |-> a.maxMessages,
                         fields |-> a.fields, outputDir |-> "./exports",
                         outputPrefix |-> "gmail_export",
                         includeTimestamp |-> a.includeTimestamp,
                         maxBytesPerFile |-> a.maxBytesPerFile,
                         sanitize |-> [enabled |-> a.sanitizeChoice # "none",
                                       categories |-> IF a.sanitizeChoice = "all"
                                                      THEN ALL_REDACTION_CATEGORIES
                                                      ELSE DEFAULT_REDACTION_CATEGORIES]]
                        @@ body
          IN  proc' = IF ~a.proceed \/ ~a.startExport THEN Exit(0)
                      ELSE [proc EXCEPT !.pc = "authorize",
                                        !.config = Some(Resolved(Spread(DEFAULT_CONFIG, config)))]
    /\ UNCHANGED <<sanVars, parserVars, disk, output, writes, split, run>>

\* await authorize(config.credentialsPath, config.tokenPath): the client, or
\* an exception that main().catch turns into process.exit(1)
Authorize ==
    /\ proc.pc = "authorize"
    /\ \E authorized \in BOOLEAN :
          proc' = IF authorized THEN [Called(proc, "authorize") EXCEPT !.pc = "runExport"]
                  ELSE Exit(1)
    /\ UNCHANGED <<sanVars, parserVars, disk, output, writes, split, run>>

\* the mailbox of the account
MsgHi == Message(Some("f"), "text/plain", "SGk")
MainMailboxes == { << <<MsgHi, MsgNoId>>, <<MsgHtml>> >> }

\* await runExport(auth, config)
CallRunExport ==
    /\ proc.pc = "runExport"
    /\ run.pc = "idle"
    /\ \E mailbox \in MainMailboxes : RunExport(proc.config[1], mailbox)
    /\ proc' = [Called(proc, "runExport") EXCEPT !.pc = "exporting"]
    /\ UNCHANGED <<sanVars, parserVars, split>>

\* the end of main: runExport has returned, or has thrown and main().catch
\* calls process.exit(1)
MainEnd ==
    /\ proc.pc = "exporting"
    /\ run.pc \in {"done", "threw"}
    /\ proc' = Exit(IF run.pc = "done" THEN 0 ELSE 1)
    /\ UNCHANGED <<sanVars, parserVars, disk, output, writes, split, run>>

NextMain ==
    \/ Main \/ Interactive \/ Authorize \/ CallRunExport
    \/ List \/ ExportMessage \/ NextPage \/ ReturnStats
    \/ MainEnd

SpecMain == Init /\ [][NextMain]_vars

\* the options given on the command line
Given(flags) == \E k \in 3..Len(proc.argv) : proc.argv[k] \in flags
UtilityFlags == {"-h", "--help", "--list-fields", "--init"}
InteractiveAsked ==
    proc.pc # "idle" /\ Given({"-i", "--interactive"}) /\ ~Given(UtilityFlags \cup {"--setup"})
SetupAsked ==
    proc.pc # "idle" /\ Given({"--setup"}) /\ ~Given(UtilityFlags \cup {"-i", "--interactive"})

\* every call of g in the calls cs comes after a call of f
Before(cs, f, g) ==
    \A j \in 1..Len(cs) : cs[j] = g => \E i \in 1..(j - 1) : cs[i] = f

\* C24: the dispatch of main matches the help text: with -i or --interactive
\* runInteractiveSetup runs before authorize and runExport, and with --setup
\* the setup guide is shown and the process exits with code 0 without
\* authenticating or exporting.
C24_DispatchMatchesHelp ==
    /\ InteractiveAsked =>
          /\ Before(proc.calls, "runInteractiveSetup", "authorize")
          /\ Before(proc.calls, "runInteractiveSetup", "runExport")
    /\ SetupAsked =>
          /\ proc.calls = <<"showSetupGuide">>
          /\ proc.pc = "exited"
          /\ proc.exitCode = Some(0)

\* what main does with the two options: -i and --interactive change nothing
\* (the configuration is merged from the defaults, the file and the command
\* line, and runInteractiveSetup is never called), and --setup starts
\* runInteractiveSetup and never shows the setup guide
C24_DispatchOfMain ==
    /\ InteractiveAsked =>
          /\ ~Includes(proc.calls, "runInteractiveSetup")
          /\ SubSeq(proc.calls, 1, 2) = <<"loadConfigFile", "mergeConfigs">>
    /\ SetupAsked =>
          /\ Head(proc.calls) = "runInteractiveSetup"
          /\ ~Includes(proc.calls, "showSetupGuide")

\* --setup has gone through the questions to authorize and runExport
C24_SetupExports ==
    /\ SetupAsked
    /\ proc.calls = <<"runInteractiveSetup", "authorize", "runExport">>

\* main has called runExport
RunExportCalled == proc.pc # "idle" /\ Includes(proc.calls, "runExport")

\* C28: every configuration that reaches runExport, on the non-interactive
\* path as on the interactive path, has a sanitize configuration, and
\* runExport does not throw on reading config.sanitize.enabled.
C28_SanitizeDefinedAtRunExport ==
    RunExportCalled =>
        /\ Prop(proc.config[1], "sanitize") # Undefined
        /\ run.pc # "threw"

\* the two paths apart: the configuration of runInteractiveSetup has a
\* sanitize configuration and runExport returns; the configuration of
\* mergeConfigs has none, whatever the file and the command line hold, and
\* runExport throws before it creates the output
C28_OnlyTheInteractivePathDefinesSanitize ==
    RunExportCalled =>
        IF Includes(proc.calls, "runInteractiveSetup")
        THEN /\ Prop(proc.config[1], "sanitize") # Undefined
             /\ run.pc # "threw"
        ELSE /\ Prop(proc.config[1], "sanitize") = Undefined
             /\ run.pc = "threw"
             /\ output = Undefined

\* a configuration file with a sanitize section was read on the way to a
\* runExport that threw
C28_FileSanitizeDropped ==
    /\ proc.pc = "exited"
    /\ proc.exitCode = Some(1)
    /\ proc.calls = <<"loadConfigFile", "mergeConfigs", "authorize", "runExport">>
    /\ proc.config[1].maxMessages = 2

====
